---- MODULE Spec2Model ----
(***************************************************************************)
(* Model of the Otanet incremental multi-source synchronisation engine:    *)
(* the discovery workers, the dedup guard (processing_manga under          *)
(* processing_lock), the SQLite State Store and the per-item sync pass of  *)
(* MangaDexHelper and NatoMangaHelper.                                     *)
(*                                                                         *)
(* Text values (ids, table names, chapter labels, page numbers stored as   *)
(* TEXT) are sequences of one-character strings, so that str.replace,      *)
(* float(), str(), the regular expression of get_first_number and SQLite's *)
(* binary collation are computed, not assumed.  float values are kept in   *)
(* tenths (12.5 is 125): chapter labels carry at most one fractional digit.*)
(***************************************************************************)
EXTENDS Integers, Sequences, FiniteSets, TLC

\* ------------------------------------------------------------------ bounds
MANGADEX_WORKERS == 2
NATOMANGA_WORKERS == 2
MaxCycles == 1
MaxList == 2
MaxFeed == 2
MaxPages == 2
MaxFails == 1
MaxOps == 3
MaxPending == 2
MaxClock == 720
MaxSchedule == 1000
MaxHandlers == 2

\* The page-manifest fetch is tried again while retries <= 10.
MAX_RETRIES == 10

\* ------------------------------------------------------- program constants
MANGADEX_MAX_OFFSET == 4000
NATOMANGA_MAX_OFFSET == 2400

None == "None"

\* -------------------------------------------------------------------- text
DigitChars == <<"0", "1", "2", "3", "4", "5", "6", "7", "8", "9">>

IsDigit(c) == \E i \in 1..10 : DigitChars[i] = c

DigitVal(c) == (CHOOSE i \in 1..10 : DigitChars[i] = c) - 1

\* The byte of a character: what SQLite's BINARY collation compares.
Code(c) ==
    IF IsDigit(c) THEN 48 + DigitVal(c)
    ELSE CASE c = "-" -> 45
           [] c = "." -> 46
           [] c = "_" -> 95
           [] c = "a" -> 97
           [] c = "b" -> 98
           [] c = "m" -> 109
           [] c = "n" -> 110
           [] c = "x" -> 120

RECURSIVE TextLess(_, _)
TextLess(s, t) ==
    IF s = <<>> THEN t # <<>>
    ELSE IF t = <<>> THEN FALSE
    ELSE IF Code(Head(s)) # Code(Head(t)) THEN Code(Head(s)) < Code(Head(t))
    ELSE TextLess(Tail(s), Tail(t))

\* SELECT MAX(DISTINCT col) over a non-empty set of TEXT values.
MaxText(S) == CHOOSE m \in S : \A x \in S : x = m \/ TextLess(x, m)

\* str.replace(old, new) for one-character old and new.
replace(s, old, new) == [i \in 1..Len(s) |-> IF s[i] = old THEN new ELSE s[i]]

RECURSIVE IntVal(_)
IntVal(s) ==
    IF s = <<>> THEN 0
    ELSE IntVal(SubSeq(s, 1, Len(s) - 1)) * 10 + DigitVal(s[Len(s)])

DotPos(s) == IF \E i \in 1..Len(s) : s[i] = "." THEN CHOOSE i \in 1..Len(s) : s[i] = "." ELSE 0

\* Python's float() accepts digits, one decimal point and single underscores
\* between digits (PEP 515); anything else raises ValueError.
FloatOk(s) ==
    /\ s # <<>>
    /\ \A i \in 1..Len(s) : IsDigit(s[i]) \/ s[i] = "." \/ s[i] = "_"
    /\ Cardinality({i \in 1..Len(s) : s[i] = "."}) <= 1
    /\ IsDigit(s[1]) /\ IsDigit(s[Len(s)])
    /\ \A i \in 1..Len(s) :
          s[i] \in {".", "_"} => i > 1 /\ i < Len(s) /\ IsDigit(s[i - 1]) /\ IsDigit(s[i + 1])
    /\ DotPos(s) # 0 => Len(s) - DotPos(s) = 1

\* float(s) in tenths; the underscores are dropped before the digits are read.
float(s) ==
    LET t == SelectSeq(s, LAMBDA c : c # "_")
        p == DotPos(t)
    IN  IF p = 0 THEN IntVal(t) * 10
        ELSE IntVal(SubSeq(t, 1, p - 1)) * 10 + IntVal(SubSeq(t, p + 1, Len(t)))

is_float(input) == FloatOk(input)

RECURSIVE str(_)
str(n) == IF n < 10 THEN <<DigitChars[n + 1]>> ELSE str(n \div 10) \o <<DigitChars[(n % 10) + 1]>>

\* re.search(r'\d+', input): the first maximal run of digits, 0 when there is none.
get_first_number(input) ==
    IF \A i \in 1..Len(input) : ~IsDigit(input[i]) THEN 0
    ELSE LET a == CHOOSE i \in 1..Len(input) :
                      IsDigit(input[i]) /\ \A j \in 1..(i - 1) : ~IsDigit(input[j])
             b == CHOOSE k \in a..Len(input) :
                      /\ \A j \in a..k : IsDigit(input[j])
                      /\ (k = Len(input) \/ ~IsDigit(input[k + 1]))
         IN  IntVal(SubSeq(input, a, b))

\* ------------------------------------------------------------- identities
\* MangaDex ids are UUIDs (hyphenated); NatoManga ids are "nato_" + slug.
MDIds == {<<"m", "-", "1">>, <<"m", "-", "2">>}
NMIds == {<<"n", "_", "1">>}
Ids == MDIds \cup NMIds

Source(id) == IF id \in MDIds THEN "md" ELSE "nm"

TableNames == {replace(id, "-", "_") : id \in Ids}

MetaTableName == <<"manga_metadata">>

\* Chapter labels as the sources report them; "x" stands for a non-numeric one.
Labels == {<<"2">>, <<"1", "0">>, <<"1", ".", "5">>, <<"x">>}
NumericLabels == {l \in Labels : is_float(l)}

\* A chapter's locator (MangaDex chapter id, NatoManga chapter URL): its place
\* in the upstream list.
Locators == 1..MaxFeed

\* ------------------------------------------------------------ State Store
\* tables[t]: whether page table t exists, and its rows; UNIQUE(chapter_num, page_number).
\* meta[id]: whether manga_metadata has a row whose hash is id, and that row.
NoTable == [exists |-> FALSE, rows |-> {}]
NoRow == [exists |-> FALSE, latest_chapter |-> 0, cover_img |-> "", description |-> ""]

\* Optional float: None, or a value in tenths.
NoneFloat == [some |-> FALSE, val |-> 0]
Some(v) == [some |-> TRUE, val |-> v]

create_page_urls_table(tbls, manga_id) ==
    LET t == replace(manga_id, "-", "_")
    IN  IF tbls[t].exists THEN tbls ELSE [tbls EXCEPT ![t] = [exists |-> TRUE, rows |-> {}]]

\* SELECT MAX(DISTINCT chapter_num) FROM [table_name]: manga_metadata has no
\* chapter_num column and a missing table has none either (OperationalError,
\* caught, None); an empty table gives NULL; otherwise float() of the TEXT maximum.
get_manga_latest_chapter(tbls, table_name, manga_hash) ==
    IF table_name = MetaTableName THEN NoneFloat
    ELSE IF table_name \notin DOMAIN tbls THEN NoneFloat
    ELSE IF ~tbls[table_name].exists THEN NoneFloat
    ELSE IF tbls[table_name].rows = {} THEN NoneFloat
    ELSE Some(float(MaxText({r.chapter_num : r \in tbls[table_name].rows})))

get_chapters_with_status(tbls, manga_id) ==
    LET t == replace(manga_id, "-", "_")
        rows == IF tbls[t].exists THEN tbls[t].rows ELSE {}
    IN  [c \in {r.chapter_num : r \in rows} |->
            [page_count |-> Cardinality({r \in rows : r.chapter_num = c}),
             pages |-> {r.page_number : r \in {q \in rows : q.chapter_num = c}}]]

\* A plain INSERT: the UNIQUE constraint raises on a key that exists.
store_page_url_plain_insert(tbls, manga_id, chapter_num, page_number, page_url, fail) ==
    LET t == replace(manga_id, "-", "_")
    IN  IF fail \/ ~tbls[t].exists
        THEN [raised |-> TRUE, inserted |-> FALSE, tables |-> tbls]
        ELSE IF \E r \in tbls[t].rows :
                    r.chapter_num = chapter_num /\ r.page_number = str(page_number)
        THEN [raised |-> TRUE, inserted |-> FALSE, tables |-> tbls]
        ELSE [raised |-> FALSE, inserted |-> TRUE,
              tables |-> [tbls EXCEPT ![t].rows = @ \cup
                            {[chapter_num |-> chapter_num,
                              page_number |-> str(page_number),
                              page_url |-> page_url]}]]

\* INSERT OR IGNORE of one page row. fail: the write raises (database locked
\* after the retries); a missing table raises as well.
store_page_url(tbls, manga_id, chapter_num, page_number, page_url, fail) ==
    LET t == replace(manga_id, "-", "_")
        key == [chapter_num |-> chapter_num, page_number |-> str(page_number)]
    IN  IF fail \/ ~tbls[t].exists
        THEN [raised |-> TRUE, inserted |-> FALSE, tables |-> tbls]
        ELSE IF \E r \in tbls[t].rows :
                    r.chapter_num = key.chapter_num /\ r.page_number = key.page_number
        THEN [raised |-> FALSE, inserted |-> FALSE, tables |-> tbls]
        ELSE [raised |-> FALSE, inserted |-> TRUE,
              tables |-> [tbls EXCEPT ![t].rows = @ \cup
                            {[chapter_num |-> key.chapter_num,
                              page_number |-> key.page_number,
                              page_url |-> page_url]}]]

insert_manga_metadata_unguarded(mt, manga) ==
    IF ~mt[manga.id].exists
    THEN IF manga.latest_chapter = 0 THEN mt
         ELSE [mt EXCEPT ![manga.id] = [exists |-> TRUE,
                                        latest_chapter |-> manga.latest_chapter,
                                        cover_img |-> manga.cover_img,
                                        description |-> manga.description]]
    ELSE [mt EXCEPT ![manga.id].latest_chapter = manga.latest_chapter,
                    ![manga.id].cover_img = manga.cover_img]

\* INSERT when the hash has no row (nothing when latest_chapter is 0); otherwise
\* UPDATE latest_chapter and cover_img only when the stored value is smaller.
\* The UPDATE writing the cover whether or not the latest chapter advances.
insert_manga_metadata_refreshing_cover(mt, manga) ==
    IF ~mt[manga.id].exists
    THEN IF manga.latest_chapter = 0 THEN mt
         ELSE [mt EXCEPT ![manga.id] = [exists |-> TRUE,
                                        latest_chapter |-> manga.latest_chapter,
                                        cover_img |-> manga.cover_img,
                                        description |-> manga.description]]
    ELSE IF mt[manga.id].latest_chapter < manga.latest_chapter
         THEN [mt EXCEPT ![manga.id].latest_chapter = manga.latest_chapter,
                         ![manga.id].cover_img = manga.cover_img]
         ELSE [mt EXCEPT ![manga.id].cover_img = manga.cover_img]

insert_manga_metadata(mt, manga) ==
    IF ~mt[manga.id].exists
    THEN IF manga.latest_chapter = 0 THEN mt
         ELSE [mt EXCEPT ![manga.id] = [exists |-> TRUE,
                                        latest_chapter |-> manga.latest_chapter,
                                        cover_img |-> manga.cover_img,
                                        description |-> manga.description]]
    ELSE IF mt[manga.id].latest_chapter < manga.latest_chapter
         THEN [mt EXCEPT ![manga.id].latest_chapter = manga.latest_chapter,
                         ![manga.id].cover_img = manga.cover_img]
         ELSE mt

\* ------------------------------------------------------------ MangaFactory
MangaFactory(params) ==
    [id |-> params.id, description |-> params.description,
     cover_img |-> params.cover_img, latest_chapter |-> 0, chapters |-> <<>>]

\* Insert e after every element whose key is <= its own: sorted() is stable.
RECURSIVE InsertSorted(_, _)
InsertSorted(sorted, e) ==
    IF sorted = <<>> THEN <<e>>
    ELSE IF float(Head(sorted).chapter) <= float(e.chapter)
         THEN <<Head(sorted)>> \o InsertSorted(Tail(sorted), e)
         ELSE <<e>> \o sorted

\* The chapters left in the order the upstream gave them.
SortedByFloatNot(chs) == chs

RECURSIVE SortedByFloat(_)
SortedByFloat(chs) ==
    IF chs = <<>> THEN <<>>
    ELSE InsertSorted(SortedByFloat(SubSeq(chs, 1, Len(chs) - 1)), chs[Len(chs)])

set_chapters(manga, data) ==
    [manga EXCEPT !.chapters = SortedByFloat(SelectSeq(data, LAMBDA c : is_float(c.chapter)))]

set_latest_chapter_returning_true(manga, args) ==
    [raised |-> FALSE, ret |-> "True",
     manga |-> IF manga.chapters = <<>> THEN manga
               ELSE [manga EXCEPT !.latest_chapter =
                        float(manga.chapters[Len(manga.chapters)].chapter)]]

\* def set_latest_chapter(self, chapters): one positional parameter. A call that
\* passes none raises TypeError before the body runs; the body swallows its own
\* errors and the method returns None.
set_latest_chapter(manga, args) ==
    IF Len(args) # 1
    THEN [raised |-> TRUE, ret |-> None, manga |-> manga]
    ELSE [raised |-> FALSE, ret |-> None,
          manga |-> IF args[1] = <<>> THEN manga
                    ELSE [manga EXCEPT !.latest_chapter =
                             float(args[1][Len(args[1])].chapter)]]

\* Utils.normalize_s3_text(text) calls text.get_title(): it works on a manga
\* object and raises AttributeError on a str.
normalize_s3_text(argIsManga) == [raised |-> ~argIsManga]

Truthy(v) == v = "True"

\* ---------------------------------------------------------------- sources
\* What the world answers during one call, an input of every operation:
\*   feed      the chapter list upstream, a sequence of [chapter, id]
\*   list_ok   whether the chapter-list fetch succeeds
\*   manifest  the number of pages of every chapter locator
\*   mfail     the locators whose page-manifest fetch fails
\*   pfail     the <<locator, page number>> whose store_page_url raises
PageNumbers == 1..MaxPages

\* A MangaDex page file name, "<n>-x": its page number is read back from it.
PageFile(i) == str(i) \o <<"-", "x">>

NoInfo == [none |-> TRUE, total |-> 0, downloaded |-> 0, skipped |-> 0]

EmptyRun(tbls) ==
    [raised |-> FALSE, tables |-> tbls, results |-> <<>>, failures |-> 0,
     inserted |-> {}, attempted |-> {}]

_threaded_store_page_uncounted(tbls, manga_id, chapter_num, page_number, page_url, fail) ==
    LET r == store_page_url(tbls, manga_id, chapter_num, page_number, page_url, fail)
    IN  [tables |-> r.tables, failed |-> FALSE, inserted |-> r.inserted]

\* The thread body: the store's exception is caught and counted as one page failure.
_threaded_store_page(tbls, manga_id, chapter_num, page_number, page_url, fail) ==
    LET r == store_page_url(tbls, manga_id, chapter_num, page_number, page_url, fail)
    IN  [tables |-> r.tables, failed |-> r.raised, inserted |-> r.inserted]

threaded_store_page_url(tbls, page, chapter_num, manga_id, page_url, fail) ==
    LET page_number == get_first_number(page)
        r == store_page_url(tbls, manga_id, chapter_num, page_number, page_url, fail)
    IN  [tables |-> r.tables, failed |-> r.raised, inserted |-> r.inserted]

\* One thread per missing page, all joined: the threads write distinct keys, so
\* the outcome does not depend on their order.
RECURSIVE NMStoreThreads(_, _, _, _, _, _)
NMStoreThreads(acc, manga_id, chapter_num, missing, loc, pfail) ==
    IF missing = {} THEN acc
    ELSE LET idx == CHOOSE x \in missing : TRUE
             r == _threaded_store_page(acc.tables, manga_id, chapter_num, idx, loc,
                                       <<loc, idx>> \in pfail)
         IN  NMStoreThreads(
                 [tables |-> r.tables,
                  failures |-> acc.failures + (IF r.failed THEN 1 ELSE 0),
                  inserted |-> acc.inserted \cup
                      (IF r.inserted THEN {<<chapter_num, str(idx)>>} ELSE {})],
                 manga_id, chapter_num, missing \ {idx}, loc, pfail)

RECURSIVE MDStoreThreads(_, _, _, _, _, _)
MDStoreThreads(acc, manga_id, chapter_num, missing, loc, pfail) ==
    IF missing = {} THEN acc
    ELSE LET page == CHOOSE x \in missing : TRUE
             n == get_first_number(page)
             r == threaded_store_page_url(acc.tables, page, chapter_num, manga_id, loc,
                                          <<loc, n>> \in pfail)
         IN  MDStoreThreads(
                 [tables |-> r.tables,
                  failures |-> acc.failures + (IF r.failed THEN 1 ELSE 0),
                  inserted |-> acc.inserted \cup
                      (IF r.inserted THEN {<<chapter_num, str(n)>>} ELSE {})],
                 manga_id, chapter_num, missing \ {page}, loc, pfail)

\* NatoMangaHelper._store_chapter_pages. An empty page list (the fetch gave up,
\* or the page has no image) returns None.
_store_chapter_pages(tbls, chapter_url, manga_id, chapter_num, existing_pages, up) ==
    LET n == IF chapter_url \in up.mfail THEN 0 ELSE up.manifest[chapter_url]
        missing == {idx \in 1..n : str(idx) \notin existing_pages}
        st == NMStoreThreads([tables |-> tbls, failures |-> 0, inserted |-> {}],
                             manga_id, chapter_num, missing, chapter_url, up.pfail)
    IN  IF n = 0
        THEN [info |-> NoInfo, tables |-> tbls, failures |-> 0, inserted |-> {},
              attempted |-> {}, list_ok |-> chapter_url \notin up.mfail, listed |-> {}]
        ELSE IF missing = {}
        THEN [info |-> [none |-> FALSE, total |-> n, downloaded |-> 0, skipped |-> n],
              tables |-> tbls, failures |-> 0, inserted |-> {}, attempted |-> {},
              list_ok |-> TRUE, listed |-> {str(i) : i \in 1..n}]
        ELSE [info |-> [none |-> FALSE, total |-> n,
                        downloaded |-> Cardinality(missing),
                        skipped |-> Cardinality(existing_pages)],
              tables |-> st.tables, failures |-> st.failures, inserted |-> st.inserted,
              attempted |-> {<<chapter_num, str(i)>> : i \in missing},
              list_ok |-> TRUE, listed |-> {str(i) : i \in 1..n}]

\* MangaDexHelper.store_page_url_to_database. The manifest fetch gives up with
\* None after its retries; an empty data list is a chapter of 0 pages.
store_page_url_to_database(tbls, chapter_id, chapter_num, manga_id, existing_pages, up) ==
    LET failed == chapter_id \in up.mfail
        n == up.manifest[chapter_id]
        data == [i \in 1..n |-> PageFile(i)]
        missing == {data[i] : i \in {j \in 1..n :
                                       str(get_first_number(data[j])) \notin existing_pages}}
        t1 == create_page_urls_table(tbls, manga_id)
        st == MDStoreThreads([tables |-> t1, failures |-> 0, inserted |-> {}],
                             manga_id, chapter_num, missing, chapter_id, up.pfail)
    IN  IF failed
        THEN [info |-> NoInfo, tables |-> tbls, failures |-> 0, inserted |-> {},
              attempted |-> {}, list_ok |-> FALSE, listed |-> {}]
        ELSE IF missing = {}
        THEN [info |-> [none |-> FALSE, total |-> n, downloaded |-> 0, skipped |-> n],
              tables |-> tbls, failures |-> 0, inserted |-> {}, attempted |-> {},
              list_ok |-> TRUE, listed |-> {str(get_first_number(data[i])) : i \in 1..n}]
        ELSE [info |-> [none |-> FALSE, total |-> n,
                        downloaded |-> Cardinality(missing),
                        skipped |-> Cardinality(existing_pages)],
              tables |-> st.tables, failures |-> st.failures, inserted |-> st.inserted,
              attempted |-> {<<chapter_num, str(get_first_number(pg))>> : pg \in missing},
              list_ok |-> TRUE, listed |-> {str(get_first_number(data[i])) : i \in 1..n}]

\* chapter_stats of a new MetricsCollector.
NoChapterStats ==
    [total_chapters |-> 0, new_chapters |-> 0, complete_chapters |-> 0,
     partial_chapters |-> 0, skipped_complete |-> 0]

\* MetricsCollector.record_chapter.
record_chapter(stats, is_new, is_complete, downloaded_pages) ==
    [total_chapters |-> stats.total_chapters + 1,
     new_chapters |-> stats.new_chapters + (IF is_new THEN 1 ELSE 0),
     complete_chapters |-> stats.complete_chapters + (IF is_complete THEN 1 ELSE 0),
     partial_chapters |-> stats.partial_chapters + (IF is_complete THEN 0 ELSE 1),
     skipped_complete |-> stats.skipped_complete + (IF downloaded_pages = 0 THEN 1 ELSE 0)]

\* What download_chapters reports of one chapter: `if pages_info:` and the
\* record_chapter call with is_complete = (downloaded == 0).
ChapterReport(stats, is_new_chapter, pages_info) ==
    IF pages_info.none THEN stats
    ELSE record_chapter(stats, is_new_chapter, pages_info.downloaded = 0,
                        pages_info.downloaded)

\* The effect of one chapter of a download_chapters loop on the running totals.
AfterChapter(acc, r, chapter_num, is_new, loc) ==
    [raised |-> FALSE,
     tables |-> r.tables,
     results |-> Append(acc.results,
                        [chapter_num |-> chapter_num, is_new |-> is_new, loc |-> loc,
                         info |-> r.info, list_ok |-> r.list_ok, listed |-> r.listed]),
     failures |-> acc.failures + r.failures,
     inserted |-> acc.inserted \cup r.inserted,
     attempted |-> acc.attempted \cup r.attempted]

\* NatoMangaHelper.download_chapters: the loop over manga.get_chapters() from
\* chapter i on. status is read once, before the loop.
RECURSIVE NMChaptersFrom(_, _, _, _, _)
NMChaptersFrom(acc, manga, status, up, i) ==
    IF i > Len(manga.chapters) THEN acc
    ELSE LET chapter == manga.chapters[i]
             chapter_num == replace(chapter.chapter, ".", "_")
             chapter_url == chapter.id
             is_new_chapter == chapter_num \notin DOMAIN status
             existing_pages == IF chapter_num \in DOMAIN status
                               THEN status[chapter_num].pages ELSE {}
             t1 == create_page_urls_table(acc.tables, manga.id)
             r == _store_chapter_pages(t1, chapter_url, manga.id, chapter_num,
                                       existing_pages, up)
         IN  NMChaptersFrom(AfterChapter(acc, r, chapter_num, is_new_chapter, chapter_url),
                            manga, status, up, i + 1)

NM_download_chapters(manga, tbls, up) ==
    NMChaptersFrom(EmptyRun(tbls), manga,
                   get_chapters_with_status(tbls, manga.id), up, 1)

\* MangaDexHelper.download_chapters: the same loop; every chapter first builds
\* title = normalize_s3_text(manga.get_title()), handing it a str.
RECURSIVE MDChaptersFrom(_, _, _, _, _)
MDChaptersFrom(acc, manga, status, up, i) ==
    IF i > Len(manga.chapters) THEN acc
    ELSE LET chapter == manga.chapters[i]
             chapter_num == replace(chapter.chapter, ".", "_")
             is_new_chapter == chapter_num \notin DOMAIN status
             existing_pages == IF chapter_num \in DOMAIN status
                               THEN status[chapter_num].pages ELSE {}
             title == normalize_s3_text(FALSE)
             r == store_page_url_to_database(acc.tables, chapter.id, chapter_num,
                                             manga.id, existing_pages, up)
         IN  IF title.raised THEN [acc EXCEPT !.raised = TRUE]
             ELSE MDChaptersFrom(AfterChapter(acc, r, chapter_num, is_new_chapter, chapter.id),
                                 manga, status, up, i + 1)

MD_download_chapters(manga, tbls, up) ==
    MDChaptersFrom(EmptyRun(tbls), manga, get_chapters_with_status(tbls, manga.id), up, 1)

download_chapters(manga, tbls, up) ==
    IF Source(manga.id) = "md" THEN MD_download_chapters(manga, tbls, up)
    ELSE NM_download_chapters(manga, tbls, up)

\* What get_chapters_with_status returns when the store cannot be read: the
\* except clauses print the error and return {} (sqlite_helper.py 201-211).
NoStatus == [c \in {} |-> [page_count |-> 0, pages |-> {}]]

\* download_chapters of both helpers when that read of the store fails: the
\* loop runs on the empty dictionary.
download_chapters_unread(manga, tbls, up) ==
    IF Source(manga.id) = "md" THEN MDChaptersFrom(EmptyRun(tbls), manga, NoStatus, up, 1)
    ELSE NMChaptersFrom(EmptyRun(tbls), manga, NoStatus, up, 1)

\* The end of set_latest_chapters (mangadex_helper.py 103-113, natomanga_helper.py
\* 316-326): r is what manga.set_latest_chapter() did, existing the stored cut-off.
CutOff(existing, r) ==
    IF r.raised THEN [raised |-> TRUE, ret |-> None, manga |-> r.manga]
    ELSE IF existing.some /\ r.manga.latest_chapter <= existing.val
    THEN [raised |-> FALSE, ret |-> "False", manga |-> r.manga]
    ELSE [raised |-> FALSE, ret |-> r.ret, manga |-> r.manga]

\* set_latest_chapters of both helpers. MangaDex: the feed request raises when
\* the fetch fails. NatoManga: _get_html gives up with None and the method
\* returns False. Both then call manga.set_latest_chapter() with no argument.
MD_set_latest_chapters(manga, tbls, up) ==
    IF ~up.list_ok THEN [raised |-> TRUE, ret |-> None, manga |-> manga]
    ELSE IF up.feed = <<>> THEN [raised |-> FALSE, ret |-> "False", manga |-> manga]
    ELSE CutOff(get_manga_latest_chapter(tbls, replace(manga.id, "-", "_"), manga.id),
                set_latest_chapter(set_chapters(manga, up.feed), <<>>))

\* _parse_chapter_list keeps the anchors whose href names a chapter number and
\* sorts them by float.
_parse_chapter_list(anchors) == SortedByFloat(SelectSeq(anchors, LAMBDA c : is_float(c.chapter)))

NMAfterParse(manga, tbls, chapters) ==
    IF chapters = <<>> THEN [raised |-> FALSE, ret |-> "False", manga |-> manga]
    ELSE CutOff(get_manga_latest_chapter(tbls, replace(manga.id, "-", "_"), manga.id),
                set_latest_chapter(set_chapters(manga, chapters), <<>>))

NM_set_latest_chapters(manga, tbls, up) ==
    IF ~up.list_ok THEN [raised |-> FALSE, ret |-> "False", manga |-> manga]
    ELSE NMAfterParse(manga, tbls, _parse_chapter_list(up.feed))

\* An empty chapter list taken for an item to download.
set_latest_chapters_empty_is_new(manga, tbls, up) ==
    IF up.list_ok /\ up.feed = <<>> THEN [raised |-> FALSE, ret |-> "True", manga |-> manga]
    ELSE IF Source(manga.id) = "md" THEN MD_set_latest_chapters(manga, tbls, up)
    ELSE NM_set_latest_chapters(manga, tbls, up)

\* The chapter list read and the download asked for, with no cut-off.
set_latest_chapters_no_cut_off(manga, tbls, up) ==
    IF ~up.list_ok \/ up.feed = <<>> THEN [raised |-> FALSE, ret |-> "False", manga |-> manga]
    ELSE [raised |-> FALSE, ret |-> "True",
          manga |-> IF Source(manga.id) = "md" THEN set_chapters(manga, up.feed)
                    ELSE set_chapters(manga, _parse_chapter_list(up.feed))]

set_latest_chapters(manga, tbls, up) ==
    IF Source(manga.id) = "md" THEN MD_set_latest_chapters(manga, tbls, up)
    ELSE NM_set_latest_chapters(manga, tbls, up)

\* if should_download: insert_manga_metadata, download_chapters, s3_upload_queue.put
\* (main.py 147-150); d is what download_chapters did.
SyncDownload(base, mt1, d) ==
    IF d.raised
    THEN [base EXCEPT !.outcome = "error", !.tables = d.tables, !.meta = mt1,
                      !.run = d, !.downloading = TRUE]
    ELSE [base EXCEPT !.outcome = "synced", !.tables = d.tables, !.meta = mt1,
                      !.signal = TRUE, !.run = d, !.downloading = TRUE]

SyncDecide(tbls, mt, up, existing_chapter, s) ==
    IF s.raised
    THEN [outcome |-> "error", tables |-> tbls, meta |-> mt, signal |-> FALSE,
          run |-> EmptyRun(tbls), is_new_manga |-> ~existing_chapter.some,
          has_new_chapters |-> FALSE, downloading |-> FALSE]
    ELSE IF ~Truthy(s.ret)
    THEN [outcome |-> "no_new", tables |-> tbls, meta |-> mt, signal |-> FALSE,
          run |-> EmptyRun(tbls), is_new_manga |-> ~existing_chapter.some,
          has_new_chapters |-> FALSE, downloading |-> FALSE]
    ELSE SyncDownload([outcome |-> "no_new", tables |-> tbls, meta |-> mt,
                       signal |-> FALSE, run |-> EmptyRun(tbls),
                       is_new_manga |-> ~existing_chapter.some,
                       has_new_chapters |-> TRUE, downloading |-> FALSE],
                      insert_manga_metadata(mt, s.manga),
                      download_chapters(s.manga, tbls, up))

\* The body of a worker's inner try (main.py 133-152), the same in both workers:
\* read the stored latest chapter, set_latest_chapters, and when it says so
\* insert the metadata, download the chapters and signal the replication thread.
SyncBody(params, tbls, mt, up) ==
    SyncDecide(tbls, mt, up,
               get_manga_latest_chapter(tbls, MetaTableName, params.id),
               set_latest_chapters(MangaFactory(params), tbls, up))

\* What a listing says of an item.
Params(id) == [id |-> id, description |-> "", cover_img |-> "c1"]

\* ================================================================ the program
VARIABLES
    mangadex_queue,     \* offsets (and None) waiting for the MangaDex workers
    natomanga_queue,    \* offsets (and None) waiting for the NatoManga workers
    s3_upload_queue,    \* number of state-changed signals waiting in the queue
    processing_manga,   \* the ids being processed
    processing_lock,    \* the workers inside `with processing_lock`
    pc,                 \* where each worker is in its loop
    manga_list,         \* each worker's items still to visit
    manga_id,           \* each worker's current item
    outcome,            \* how each worker's last item ended
    mainpc,             \* the main thread: "cycle", "sentinels", "join", "exit"
    md_cycle_offset,
    nm_cycle_offset,
    joined,             \* the number of threads main has joined
    request_queue,      \* dashboard: the ids the operator asked for
    active_requests,    \* dashboard: manga_id -> status
    rqpc,               \* request_queue_worker: "get", "fetch", "sync"
    requested,          \* request_queue_worker: its manga_id
    admitted,           \* per id, the request handlers past the membership test
    upload_count,       \* s3_upload_thread: signals since the last upload
    last_upload_time,   \* s3_upload_thread
    clock,              \* time.time(), in seconds since the thread started
    evaluation,         \* what the replication thread's last evaluation saw and did
    tables,             \* State Store: the page tables
    meta,               \* State Store: manga_metadata
    subject,            \* the item an engine run drives
    feed,               \* the subject's chapter list upstream
    manifest,           \* the page count of every chapter locator upstream
    listed_pages,       \* per chapter (its number and locator), the latest ListPages answer
    last,               \* what the last engine operation did
    nops,               \* engine operations so far
    page_fetch          \* the page-manifest fetch of store_page_url_to_database

orchVars == <<mangadex_queue, natomanga_queue, s3_upload_queue, processing_manga,
              processing_lock, pc, manga_list, manga_id, outcome, mainpc,
              md_cycle_offset, nm_cycle_offset, joined>>
opVars == <<request_queue, active_requests, rqpc, requested, admitted>>
s3Vars == <<upload_count, last_upload_time, clock, evaluation>>
storeVars == <<tables, meta>>
engineVars == <<subject, feed, manifest, listed_pages, last, nops>>
vars == <<orchVars, opVars, s3Vars, storeVars, engineVars, page_fetch>>

MDThreads == {<<"md", i>> : i \in 1..MANGADEX_WORKERS}
NMThreads == {<<"nm", i>> : i \in 1..NATOMANGA_WORKERS}
Workers == MDThreads \cup NMThreads

\* for t in mangadex_threads + nato_threads: t.join()
JoinOrder == [k \in 1..(MANGADEX_WORKERS + NATOMANGA_WORKERS) |->
                 IF k <= MANGADEX_WORKERS THEN <<"md", k>> ELSE <<"nm", k - MANGADEX_WORKERS>>]

NoOffset == [none |-> TRUE, val |-> 0]
Offset(n) == [none |-> FALSE, val |-> n]

NoItem == <<>>

\* The chapter numbers a page row can carry.
ChapterNums == {replace(l, ".", "_") : l \in NumericLabels}

NotListed == [some |-> FALSE, pages |-> {}]

NoLast ==
    [kind |-> "none", prev |-> "none", outcome |-> "none", list_ok |-> TRUE,
     mfail |-> {}, pfail |-> {}, raised |-> FALSE, failures |-> 0, inserted |-> {},
     attempted |-> {}, results |-> <<>>, offered |-> 0]

\* get_recent_manga answers with distinct items of the worker's own source.
Listings(w) ==
    LET src == IF w[1] = "md" THEN MDIds ELSE NMIds
    IN  {l \in UNION {[1..n -> src] : n \in 0..MaxList} :
            \A i, j \in 1..Len(l) : i # j => l[i] # l[j]}

\* The upstream answers a worker meets: the world is not part of the program.
SpecUps ==
    {[feed |-> f, list_ok |-> ok, manifest |-> [l \in Locators |-> MaxPages],
      mfail |-> {}, pfail |-> {}] :
        f \in {<<>>, <<[chapter |-> <<"2">>, id |-> 1]>>}, ok \in BOOLEAN}

\* The ids an operator asks for.
RequestIds == MDIds

\* active_requests = {} and an empty request_queue (dashboard.py 13-14).
OperatorInit ==
    /\ request_queue = <<>>
    /\ active_requests = [i \in RequestIds |-> "absent"]
    /\ rqpc = "get"
    /\ requested = NoItem
    /\ admitted = [i \in RequestIds |-> 0]

NoEvaluation ==
    [flushed |-> FALSE, upload_count |-> 0, time_elapsed |-> 0, uploaded |-> FALSE,
     current_time |-> 0]

\* upload_count = 0; last_upload_time = time.time() (main.py 264-265).
ReplicationInit ==
    /\ upload_count = 0
    /\ last_upload_time = 0
    /\ clock = 0
    /\ evaluation = NoEvaluation

\* retries = 0, data = None, and the error counters of a new MetricsCollector;
\* requests counts the requests.get calls, response is the last answer.
FetchInit ==
    page_fetch = [at |-> "loop", retries |-> 0, data |-> FALSE, rate_limits |-> 0,
                  api_errors |-> 0, requests |-> 0, response |-> "none"]

StoreInit ==
    /\ tables = [t \in TableNames |-> NoTable]
    /\ meta = [i \in Ids |-> NoRow]

EngineIdle ==
    /\ subject = NoItem
    /\ feed = <<>>
    /\ manifest = [l \in Locators |-> 0]
    /\ listed_pages = [c \in ChapterNums \X Locators |-> NotListed]
    /\ last = NoLast
    /\ nops = 0

Init ==
    /\ mangadex_queue = <<>>
    /\ natomanga_queue = <<>>
    /\ s3_upload_queue = 0
    /\ processing_manga = {}
    /\ processing_lock = {}
    /\ pc = [w \in Workers |-> "get"]
    /\ manga_list = [w \in Workers |-> <<>>]
    /\ manga_id = [w \in Workers |-> NoItem]
    /\ outcome = [w \in Workers |-> "none"]
    /\ mainpc = "cycle"
    /\ md_cycle_offset = 0
    /\ nm_cycle_offset = 0
    /\ joined = 0
    /\ OperatorInit
    /\ ReplicationInit
    /\ FetchInit
    /\ StoreInit
    /\ EngineIdle

LockFreeIgnored(lk) == TRUE

\* threading.Lock: acquire blocks while another thread holds it.
LockFree(lk) == lk = {}

QueueOf(w) == IF w[1] = "md" THEN mangadex_queue ELSE natomanga_queue

\* ------------------------------------------------------------- main thread
\* One scheduling cycle (main.py 376-389): offset 0 and the rotating window on
\* mangadex_queue, one rotating offset on natomanga_queue.
\* The window without its fixed first slot.
MDOffsetRotating(i) ==
    ((md_cycle_offset + i - 1) % (MANGADEX_MAX_OFFSET \div 8)) * 8 + 8

\* The offsets of a window that never moves: the cycle offset is left out.
MDOffsetStill(i) ==
    IF i = 0 THEN 0
    ELSE ((i - 1) % (MANGADEX_MAX_OFFSET \div 8)) * 8 + 8

MDOffset(i) ==
    IF i = 0 THEN 0
    ELSE ((md_cycle_offset + i - 1) % (MANGADEX_MAX_OFFSET \div 8)) * 8 + 8

\* The body of the while loop, for at most cycles cycles.
Cycle(cycles) ==
    /\ mainpc = "cycle"
    /\ nm_cycle_offset < cycles
    /\ mangadex_queue' = mangadex_queue \o
                         [k \in 1..MANGADEX_WORKERS |-> Offset(MDOffset(k - 1))]
    /\ md_cycle_offset' = md_cycle_offset + MANGADEX_WORKERS - 1
    /\ natomanga_queue' = Append(natomanga_queue,
           Offset((nm_cycle_offset % (NATOMANGA_MAX_OFFSET \div 24)) * 24))
    /\ nm_cycle_offset' = nm_cycle_offset + 1
    /\ UNCHANGED <<page_fetch, s3_upload_queue, processing_manga, processing_lock, pc,
                   manga_list, manga_id, outcome, mainpc, joined, storeVars, engineVars, opVars, s3Vars>>

M_Cycle == Cycle(MaxCycles)

\* KeyboardInterrupt (main.py 394-398): the handler starts with the final
\* upload, sqlite_helper.data_to_s3(), while every thread is still running.
M_Interrupt ==
    /\ mainpc = "cycle"
    /\ mainpc' = "sentinels"
    /\ UNCHANGED <<page_fetch, mangadex_queue, natomanga_queue, s3_upload_queue, processing_manga,
                   processing_lock, pc, manga_list, manga_id, outcome, md_cycle_offset,
                   nm_cycle_offset, joined, storeVars, engineVars, opVars, s3Vars>>

\* main.py 400-403: one None per MangaDex worker and a single None on
\* natomanga_queue.
M_Sentinels ==
    /\ mainpc = "sentinels"
    /\ mangadex_queue' = mangadex_queue \o [k \in 1..MANGADEX_WORKERS |-> NoOffset]
    /\ natomanga_queue' = Append(natomanga_queue, NoOffset)
    /\ mainpc' = "join"
    /\ UNCHANGED <<page_fetch, s3_upload_queue, processing_manga, processing_lock, pc,
                   manga_list, manga_id, outcome, md_cycle_offset, nm_cycle_offset,
                   joined, storeVars, engineVars, opVars, s3Vars>>

\* t.join() of the next thread in order; past the last one main exits.
M_Join ==
    /\ mainpc = "join"
    /\ joined < MANGADEX_WORKERS + NATOMANGA_WORKERS
    /\ pc[JoinOrder[joined + 1]] = "done"
    /\ joined' = joined + 1
    /\ mainpc' = IF joined + 1 = MANGADEX_WORKERS + NATOMANGA_WORKERS THEN "exit" ELSE "join"
    /\ UNCHANGED <<page_fetch, mangadex_queue, natomanga_queue, s3_upload_queue, processing_manga,
                   processing_lock, pc, manga_list, manga_id, outcome,
                   md_cycle_offset, nm_cycle_offset, storeVars, engineVars, opVars, s3Vars>>

\* ----------------------------------------------------------------- workers
\* offset = offset_queue.get(); if offset is None: task_done(); break
W_Get(w) ==
    /\ pc[w] = "get"
    /\ QueueOf(w) # <<>>
    /\ IF w[1] = "md"
       THEN mangadex_queue' = Tail(mangadex_queue) /\ UNCHANGED natomanga_queue
       ELSE natomanga_queue' = Tail(natomanga_queue) /\ UNCHANGED mangadex_queue
    /\ pc' = [pc EXCEPT ![w] = IF Head(QueueOf(w)).none THEN "done" ELSE "got"]
    /\ UNCHANGED <<page_fetch, s3_upload_queue, processing_manga, processing_lock, manga_list,
                   manga_id, outcome, mainpc, md_cycle_offset, nm_cycle_offset, joined,
                   storeVars, engineVars, opVars, s3Vars>>

\* manga_list = helper.get_recent_manga(offset)
W_List(w) ==
    /\ pc[w] = "got"
    /\ \E l \in Listings(w) : manga_list' = [manga_list EXCEPT ![w] = l]
    /\ pc' = [pc EXCEPT ![w] = "loop"]
    /\ UNCHANGED <<page_fetch, mangadex_queue, natomanga_queue, s3_upload_queue, processing_manga,
                   processing_lock, manga_id, outcome, mainpc, md_cycle_offset,
                   nm_cycle_offset, joined, storeVars, engineVars, opVars, s3Vars>>

\* The listing's exception left uncaught: it ends the thread.
W_ListErrorFatal(w) ==
    /\ pc[w] = "got"
    /\ w[1] = "md"
    /\ pc' = [pc EXCEPT ![w] = "done"]
    /\ outcome' = [outcome EXCEPT ![w] = "list_error"]
    /\ UNCHANGED <<page_fetch, mangadex_queue, natomanga_queue, s3_upload_queue, processing_manga,
                   processing_lock, manga_list, manga_id, mainpc, md_cycle_offset,
                   nm_cycle_offset, joined, storeVars, engineVars, opVars, s3Vars>>

\* MangaDexHelper.get_recent_manga raises on a failed request: the worker
\* records it and goes back to the queue. NatoManga's returns [] instead.
W_ListError(w) ==
    /\ pc[w] = "got"
    /\ w[1] = "md"
    /\ pc' = [pc EXCEPT ![w] = "get"]
    /\ outcome' = [outcome EXCEPT ![w] = "list_error"]
    /\ UNCHANGED <<page_fetch, mangadex_queue, natomanga_queue, s3_upload_queue, processing_manga,
                   processing_lock, manga_list, manga_id, mainpc, md_cycle_offset,
                   nm_cycle_offset, joined, storeVars, engineVars, opVars, s3Vars>>

\* for manga in manga_list: the next item, or task_done() after the last.
W_Next(w) ==
    /\ pc[w] = "loop"
    /\ IF manga_list[w] = <<>>
       THEN /\ pc' = [pc EXCEPT ![w] = "get"]
            /\ UNCHANGED <<manga_list, manga_id>>
       ELSE /\ manga_id' = [manga_id EXCEPT ![w] = Head(manga_list[w])]
            /\ manga_list' = [manga_list EXCEPT ![w] = Tail(manga_list[w])]
            /\ pc' = [pc EXCEPT ![w] = "lock"]
    /\ UNCHANGED <<page_fetch, mangadex_queue, natomanga_queue, s3_upload_queue, processing_manga,
                   processing_lock, outcome, mainpc, md_cycle_offset,
                   nm_cycle_offset, joined, storeVars, engineVars, opVars, s3Vars>>

\* with processing_lock:
W_Lock(w) ==
    /\ pc[w] = "lock"
    /\ LockFree(processing_lock)
    /\ processing_lock' = processing_lock \cup {w}
    /\ pc' = [pc EXCEPT ![w] = "check"]
    /\ UNCHANGED <<page_fetch, mangadex_queue, natomanga_queue, s3_upload_queue, processing_manga,
                   manga_list, manga_id, outcome, mainpc, md_cycle_offset,
                   nm_cycle_offset, joined, storeVars, engineVars, opVars, s3Vars>>

\* The check discarding the id it finds held before it moves on.
W_CheckDiscarding(w) ==
    /\ pc[w] = "check"
    /\ IF manga_id[w] \in processing_manga
       THEN /\ processing_lock' = processing_lock \ {w}
            /\ processing_manga' = processing_manga \ {manga_id[w]}
            /\ pc' = [pc EXCEPT ![w] = "loop"]
            /\ outcome' = [outcome EXCEPT ![w] = "skipped"]
       ELSE /\ pc' = [pc EXCEPT ![w] = "add"]
            /\ UNCHANGED <<processing_lock, outcome, processing_manga>>
    /\ UNCHANGED <<page_fetch, mangadex_queue, natomanga_queue, s3_upload_queue,
                   manga_list, manga_id, mainpc, md_cycle_offset,
                   nm_cycle_offset, joined, storeVars, engineVars, opVars, s3Vars>>

\* if manga_id in processing_manga: continue   (leaving the with block)
W_Check(w) ==
    /\ pc[w] = "check"
    /\ IF manga_id[w] \in processing_manga
       THEN /\ processing_lock' = processing_lock \ {w}
            /\ pc' = [pc EXCEPT ![w] = "loop"]
            /\ outcome' = [outcome EXCEPT ![w] = "skipped"]
       ELSE /\ pc' = [pc EXCEPT ![w] = "add"]
            /\ UNCHANGED <<processing_lock, outcome>>
    /\ UNCHANGED <<page_fetch, mangadex_queue, natomanga_queue, s3_upload_queue, processing_manga,
                   manga_list, manga_id, mainpc, md_cycle_offset,
                   nm_cycle_offset, joined, storeVars, engineVars, opVars, s3Vars>>

\* The add with the sync written inside the with block: the lock is kept.
W_AddHolding(w) ==
    /\ pc[w] = "add"
    /\ processing_manga' = processing_manga \cup {manga_id[w]}
    /\ pc' = [pc EXCEPT ![w] = "sync"]
    /\ outcome' = [outcome EXCEPT ![w] = "acquired"]
    /\ UNCHANGED <<page_fetch, mangadex_queue, natomanga_queue, s3_upload_queue, manga_list,
                   manga_id, mainpc, md_cycle_offset, nm_cycle_offset, joined,
                   processing_lock, storeVars, engineVars, opVars, s3Vars>>

\* processing_manga.add(manga_id), and the with block ends
W_Add(w) ==
    /\ pc[w] = "add"
    /\ processing_manga' = processing_manga \cup {manga_id[w]}
    /\ processing_lock' = processing_lock \ {w}
    /\ pc' = [pc EXCEPT ![w] = "sync"]
    /\ outcome' = [outcome EXCEPT ![w] = "acquired"]
    /\ UNCHANGED <<page_fetch, mangadex_queue, natomanga_queue, s3_upload_queue, manga_list,
                   manga_id, mainpc, md_cycle_offset, nm_cycle_offset, joined,
                   storeVars, engineVars, opVars, s3Vars>>

\* What a finished sync pass r leaves behind in the worker and the store.
SyncDone(w, r) ==
    /\ tables' = r.tables
    /\ meta' = r.meta
    /\ s3_upload_queue' = s3_upload_queue + (IF r.signal THEN 1 ELSE 0)
    /\ outcome' = [outcome EXCEPT ![w] = r.outcome]

\* the inner try: the sync pass of the item
W_Sync(w) ==
    /\ pc[w] = "sync"
    /\ \E up \in SpecUps : SyncDone(w, SyncBody(Params(manga_id[w]), tables, meta, up))
    /\ pc' = [pc EXCEPT ![w] = "release"]
    /\ UNCHANGED <<page_fetch, mangadex_queue, natomanga_queue, processing_manga, processing_lock,
                   manga_list, manga_id, mainpc, md_cycle_offset,
                   nm_cycle_offset, joined, engineVars, opVars, s3Vars>>

\* The discard written after the sync instead of in a finally clause.
W_ReleaseOnSuccess(w) ==
    /\ pc[w] = "release"
    /\ LockFree(processing_lock)
    /\ processing_manga' = IF outcome[w] = "error" THEN processing_manga
                           ELSE processing_manga \ {manga_id[w]}
    /\ pc' = [pc EXCEPT ![w] = "loop"]
    /\ UNCHANGED <<page_fetch, mangadex_queue, natomanga_queue, s3_upload_queue, processing_lock,
                   manga_list, manga_id, outcome, mainpc, md_cycle_offset,
                   nm_cycle_offset, joined, storeVars, engineVars, opVars, s3Vars>>

\* finally: with processing_lock: processing_manga.discard(manga_id)
W_Release(w) ==
    /\ pc[w] = "release"
    /\ LockFree(processing_lock)
    /\ processing_manga' = processing_manga \ {manga_id[w]}
    /\ pc' = [pc EXCEPT ![w] = "loop"]
    /\ UNCHANGED <<page_fetch, mangadex_queue, natomanga_queue, s3_upload_queue, processing_lock,
                   manga_list, manga_id, outcome, mainpc, md_cycle_offset,
                   nm_cycle_offset, joined, storeVars, engineVars, opVars, s3Vars>>

Next ==
    \/ M_Cycle
    \/ M_Interrupt
    \/ M_Sentinels
    \/ M_Join
    \/ \E w \in Workers :
          \/ W_Get(w)
          \/ W_List(w)
          \/ W_ListError(w)
          \/ W_Next(w)
          \/ W_Lock(w)
          \/ W_Check(w)
          \/ W_Add(w)
          \/ W_Sync(w)
          \/ W_Release(w)

Spec == Init /\ [][Next]_vars

\* ------------------------------------------------------ the scheduling loop
\* The main thread alone, over many cycles: the offsets it enqueues do not
\* depend on what the workers do with them.
M_CycleAlone == Cycle(MaxSchedule)

ScheduleNext ==
    \/ M_CycleAlone
    \/ M_Interrupt
    \/ M_Sentinels

ScheduleSpec == Init /\ [][ScheduleNext]_vars

\* ------------------------------------------------- the operator request path
\* POST /api/request-manga (dashboard.py 35-49). The server answers every
\* request in a thread of its own (app.run, dashboard.py 107), at most
\* MaxHandlers of them at a time for an id. The membership test: an id already
\* in active_requests is answered "already queued" and nothing changes; the
\* others go on.
request_manga_admit(id) ==
    /\ active_requests[id] = "absent"
    /\ admitted[id] < MaxHandlers
    /\ admitted' = [admitted EXCEPT ![id] = @ + 1]
    /\ UNCHANGED <<page_fetch, request_queue, active_requests, rqpc, requested, orchVars,
                   s3Vars, storeVars, engineVars>>

\* active_requests[manga_id] = "queued"; request_queue.put(manga_id), by a
\* handler that has passed the test.
request_manga(id) ==
    /\ admitted[id] > 0
    /\ admitted' = [admitted EXCEPT ![id] = @ - 1]
    /\ active_requests' = [active_requests EXCEPT ![id] = "queued"]
    /\ request_queue' = Append(request_queue, id)
    /\ UNCHANGED <<page_fetch, rqpc, requested, orchVars, s3Vars, storeVars, engineVars>>

\* manga_id = request_queue.get(); active_requests[manga_id] = "processing"
R_Get ==
    /\ rqpc = "get"
    /\ request_queue # <<>>
    /\ requested' = Head(request_queue)
    /\ request_queue' = Tail(request_queue)
    /\ active_requests' = [active_requests EXCEPT ![Head(request_queue)] = "processing"]
    /\ rqpc' = "fetch"
    /\ UNCHANGED <<page_fetch, admitted, orchVars, s3Vars, storeVars, engineVars>>

\* manga_data = helper.get_requested_manga(manga_id): the request of the item
\* answers, or it fails (None is returned, or the request raises) and the
\* id is marked "failed".
R_Fetch ==
    /\ rqpc = "fetch"
    /\ \E found \in BOOLEAN :
          IF found
          THEN rqpc' = "sync" /\ UNCHANGED active_requests
          ELSE /\ rqpc' = "get"
               /\ active_requests' = [active_requests EXCEPT ![requested] = "failed"]
    /\ UNCHANGED <<page_fetch, admitted, request_queue, requested, orchVars, s3Vars, storeVars,
                   engineVars>>

\* if should_download: helper.download_chapters(manga); helper.data_to_s3()
\* (dashboard.py 71-73); MangaDexHelper.data_to_s3 lets the upload's exception out.
RequestDownload(d, s3_ok) ==
    [status |-> IF d.raised \/ ~s3_ok THEN "failed" ELSE "completed",
     tables |-> d.tables, downloading |-> TRUE]

RequestDecide(tbls, up, s3_ok, s) ==
    IF s.raised THEN [status |-> "failed", tables |-> tbls, downloading |-> FALSE]
    ELSE IF ~Truthy(s.ret)
    THEN [status |-> "completed", tables |-> tbls, downloading |-> FALSE]
    ELSE RequestDownload(MD_download_chapters(s.manga, tbls, up), s3_ok)

\* The try of request_queue_worker past the fetch (dashboard.py 68-80): no
\* processing_lock, no processing_manga, no insert_manga_metadata.
RequestBody(params, tbls, up, s3_ok) ==
    RequestDecide(tbls, up, s3_ok, MD_set_latest_chapters(MangaFactory(params), tbls, up))

RequestDone(r) ==
    /\ tables' = r.tables
    /\ active_requests' = [active_requests EXCEPT ![requested] = r.status]

R_Sync ==
    /\ rqpc = "sync"
    /\ \E up \in SpecUps, s3_ok \in BOOLEAN :
          RequestDone(RequestBody(Params(requested), tables, up, s3_ok))
    /\ rqpc' = "get"
    /\ UNCHANGED <<page_fetch, admitted, request_queue, requested, orchVars, s3Vars, meta,
                   engineVars>>

\* The workers that run beside the operator's in OperatorSpec: the MangaDex
\* pool, whose ids the operator's helper can ask for.
OperatorPeers == MDThreads

OperatorNext ==
    \/ \E id \in RequestIds : request_manga_admit(id)
    \/ \E id \in RequestIds : request_manga(id)
    \/ R_Get
    \/ R_Fetch
    \/ R_Sync
    \/ M_Cycle
    \/ \E w \in OperatorPeers :
          \/ W_Get(w)
          \/ W_List(w)
          \/ W_ListError(w)
          \/ W_Next(w)
          \/ W_Lock(w)
          \/ W_Check(w)
          \/ W_Add(w)
          \/ W_Sync(w)
          \/ W_Release(w)

OperatorSpec == Init /\ [][OperatorNext]_vars

\* ---------------------------------------------------- the replication thread
\* s3_upload_thread (main.py 263-294) on its own: the workers are the callers
\* of s3_upload_queue.put, and time passes in steps of the get's timeout.
UPLOAD_COUNT == 10
UPLOAD_SECONDS == 300
GET_TIMEOUT == 60

\* SQLiteHelper.data_to_s3 (sqlite_helper.py 280-286): the upload's exception
\* is printed and swallowed, so the caller never sees the upload fail.
data_to_s3(fail) == [raised |-> FALSE, uploaded |-> ~fail]

\* The flush decided by the count of signals alone.
ShouldUploadOnCount(count, time_elapsed) == count >= UPLOAD_COUNT

ShouldUploadBoth(count, time_elapsed) ==
    count >= UPLOAD_COUNT /\ time_elapsed >= UPLOAD_SECONDS

\* if upload_count >= 10 or time_elapsed >= 300
ShouldUpload(count, time_elapsed) ==
    count >= UPLOAD_COUNT \/ time_elapsed >= UPLOAD_SECONDS

\* s3_upload_queue.put(True), by any worker
S_Put ==
    /\ s3_upload_queue < MaxPending
    /\ s3_upload_queue' = s3_upload_queue + 1
    /\ UNCHANGED <<page_fetch, mangadex_queue, natomanga_queue, processing_manga, processing_lock,
                   pc, manga_list, manga_id, outcome, mainpc, md_cycle_offset,
                   nm_cycle_offset, joined, opVars, s3Vars, storeVars, engineVars>>

\* Time passes while the thread is not blocked in get.
S_Tick ==
    /\ s3_upload_queue > 0
    /\ clock < MaxClock
    /\ clock' = clock + GET_TIMEOUT
    /\ UNCHANGED <<page_fetch, orchVars, opVars, upload_count, last_upload_time, evaluation,
                   storeVars, engineVars>>

\* The evaluation of one iteration (main.py 277-290): count is upload_count
\* after the get, current_time the clock after it, r what data_to_s3 did.
Evaluate(count, current_time, r) ==
    LET flush == ShouldUpload(count, current_time - last_upload_time)
        reset == flush /\ ~r.raised
    IN  /\ upload_count' = IF reset THEN 0 ELSE count
        /\ last_upload_time' = IF reset THEN current_time ELSE last_upload_time
        /\ evaluation' = [flushed |-> flush, upload_count |-> count,
                          time_elapsed |-> current_time - last_upload_time,
                          uploaded |-> flush /\ r.uploaded,
                          current_time |-> current_time]

\* One iteration of the loop: the get returns a signal, or times out after
\* GET_TIMEOUT seconds on an empty queue; then the evaluation.
S_Iterate ==
    /\ \E fail \in BOOLEAN :
          IF s3_upload_queue > 0
          THEN /\ s3_upload_queue' = s3_upload_queue - 1
               /\ clock' = clock
               /\ Evaluate(upload_count + 1, clock, data_to_s3(fail))
          ELSE /\ clock < MaxClock
               /\ s3_upload_queue' = s3_upload_queue
               /\ clock' = clock + GET_TIMEOUT
               /\ Evaluate(upload_count, clock + GET_TIMEOUT, data_to_s3(fail))
    /\ UNCHANGED <<page_fetch, mangadex_queue, natomanga_queue, processing_manga, processing_lock,
                   pc, manga_list, manga_id, outcome, mainpc, md_cycle_offset,
                   nm_cycle_offset, joined, opVars, storeVars, engineVars>>

ReplicationNext ==
    \/ S_Put
    \/ S_Tick
    \/ S_Iterate

ReplicationSpec == Init /\ [][ReplicationNext]_vars

\* The thread's loop never ends and never blocks for longer than the get's
\* timeout (while True, every exception caught, main.py 269-294): once an
\* iteration can run it does.
ReplicationFairSpec == ReplicationSpec /\ WF_vars(S_Iterate)

\* ------------------------------------------------- page tables of the catalog
\* Item ids as the listings give them: a MangaDex UUID, and NatoManga slugs
\* taken from the href of a card as they stand (natomanga_helper.py 136, 148),
\* written with hyphens or with underscores.
CatalogIds == {<<"m", "-", "1">>, <<"a", "-", "b">>, <<"a", "_", "b">>}

NamingInit ==
    /\ mangadex_queue = <<>>
    /\ natomanga_queue = <<>>
    /\ s3_upload_queue = 0
    /\ processing_manga = {}
    /\ processing_lock = {}
    /\ pc = [w \in Workers |-> "get"]
    /\ manga_list = [w \in Workers |-> <<>>]
    /\ manga_id = [w \in Workers |-> NoItem]
    /\ outcome = [w \in Workers |-> "none"]
    /\ mainpc = "cycle"
    /\ md_cycle_offset = 0
    /\ nm_cycle_offset = 0
    /\ joined = 0
    /\ OperatorInit
    /\ ReplicationInit
    /\ FetchInit
    /\ tables = [t \in {replace(id, "-", "_") : id \in CatalogIds} |-> NoTable]
    /\ meta = [i \in Ids |-> NoRow]
    /\ EngineIdle

\* with processing_lock: the id is not in processing_manga and is added.
N_Add(id) ==
    /\ id \notin processing_manga
    /\ processing_manga' = processing_manga \cup {id}
    /\ UNCHANGED <<page_fetch, mangadex_queue, natomanga_queue, s3_upload_queue,
                   processing_lock, pc, manga_list, manga_id, outcome, mainpc,
                   md_cycle_offset, nm_cycle_offset, joined, opVars, s3Vars,
                   storeVars, engineVars>>

\* The worker that holds id stores one page of it: create_page_urls_table and
\* store_page_url, with a page URL that lies under the item's own address.
N_StorePage(id) ==
    /\ id \in processing_manga
    /\ \E page \in 1..MaxPages :
          tables' = store_page_url(create_page_urls_table(tables, id), id, <<"2">>,
                                   page, id, FALSE).tables
    /\ UNCHANGED <<page_fetch, orchVars, opVars, s3Vars, meta, engineVars>>

\* finally: processing_manga.discard(manga_id)
N_Discard(id) ==
    /\ id \in processing_manga
    /\ processing_manga' = processing_manga \ {id}
    /\ UNCHANGED <<page_fetch, mangadex_queue, natomanga_queue, s3_upload_queue,
                   processing_lock, pc, manga_list, manga_id, outcome, mainpc,
                   md_cycle_offset, nm_cycle_offset, joined, opVars, s3Vars,
                   storeVars, engineVars>>

NamingNext ==
    \E id \in CatalogIds :
        \/ N_Add(id)
        \/ N_StorePage(id)
        \/ N_Discard(id)

NamingSpec == NamingInit /\ [][NamingNext]_vars

\* ------------------------------------------- the page-manifest fetch (MangaDex)
\* What the at-home server answers to one request: a manifest, a manifest
\* whose data is null, a body that says Rate Limit Exceeded, or nothing usable
\* (the request, the JSON decoding or a key lookup raises).
Responses == {"manifest", "null", "rate_limited", "raised"}

\* One pass of the while loop with every failure counted under api_errors.
FetchAttemptOneCounter(f, resp) ==
    IF resp \in {"rate_limited", "raised"}
    THEN [f EXCEPT !.retries = f.retries + 1, !.api_errors = f.api_errors + 1,
                   !.requests = f.requests + 1, !.response = resp]
    ELSE [f EXCEPT !.at = "after", !.data = (resp = "manifest"),
                   !.requests = f.requests + 1, !.response = resp]

\* One pass of the while loop (mangadex_helper.py 251-273).
FetchAttempt(f, resp) ==
    IF resp = "rate_limited"
    THEN [f EXCEPT !.retries = f.retries + 1, !.rate_limits = f.rate_limits + 1,
                   !.requests = f.requests + 1, !.response = resp]
    ELSE IF resp = "raised"
    THEN [f EXCEPT !.retries = f.retries + 1, !.api_errors = f.api_errors + 1,
                   !.requests = f.requests + 1, !.response = resp]
    ELSE [f EXCEPT !.at = "after", !.data = (resp = "manifest"),
                   !.requests = f.requests + 1, !.response = resp]

\* while retries <= 10: one request and what follows from its answer.
F_Request ==
    /\ page_fetch.at = "loop"
    /\ page_fetch.retries <= MAX_RETRIES
    /\ \E resp \in Responses : page_fetch' = FetchAttempt(page_fetch, resp)
    /\ UNCHANGED <<orchVars, opVars, s3Vars, storeVars, engineVars>>

\* The loop condition fails: retries has passed 10.
F_Exhausted ==
    /\ page_fetch.at = "loop"
    /\ page_fetch.retries > MAX_RETRIES
    /\ page_fetch' = [page_fetch EXCEPT !.at = "after"]
    /\ UNCHANGED <<orchVars, opVars, s3Vars, storeVars, engineVars>>

\* if retries > 10 or data is None: return None; otherwise the pages follow.
F_Return ==
    /\ page_fetch.at = "after"
    /\ page_fetch' = [page_fetch EXCEPT
                        !.at = IF page_fetch.retries > MAX_RETRIES \/ ~page_fetch.data
                               THEN "none" ELSE "pages"]
    /\ UNCHANGED <<orchVars, opVars, s3Vars, storeVars, engineVars>>

FetchNext ==
    \/ F_Request
    \/ F_Exhausted
    \/ F_Return

FetchSpec == Init /\ [][FetchNext]_vars

\* ===================================================== the engine on one item
\* The sync engine driven on a single item: the worker's sync pass and the
\* helper and store methods it is built from, called one after the other while
\* the upstream changes in between.
Subjects == {<<"m", "-", "1">>, <<"n", "_", "1">>}

\* Upstream chapter lists: up to MaxFeed chapters of any label, in any order.
Feeds ==
    {[i \in 1..Len(ls) |-> [chapter |-> ls[i], id |-> i]] :
        ls \in UNION {[1..n -> Labels] : n \in 0..MaxFeed}}

\* What can go wrong during one operation: the chapter-list fetch, the page
\* manifest fetch of a chapter, the store of one page.
PageFailures(f) ==
    {[kind |-> "manifest", loc |-> l, page |-> 0] : l \in 1..Len(f)}
    \cup {[kind |-> "page", loc |-> l, page |-> q] : l \in 1..Len(f), q \in PageNumbers}

Failures(f) == {[kind |-> "list", loc |-> 0, page |-> 0]} \cup PageFailures(f)

UpOf(f, mf, F) ==
    [feed |-> f, list_ok |-> \A e \in F : e.kind # "list", manifest |-> mf,
     mfail |-> {e.loc : e \in {x \in F : x.kind = "manifest"}},
     pfail |-> {<<e.loc, e.page>> : e \in {x \in F : x.kind = "page"}}]

\* What the world answers during one engine operation: at most MaxFails
\* things go wrong.
EngineUps(f, mf) ==
    {UpOf(f, mf, F) : F \in {x \in SUBSET Failures(f) : Cardinality(x) <= MaxFails}}

\* The same for an operation that does not fetch the chapter list.
PageUps(f, mf) ==
    {UpOf(f, mf, F) : F \in {x \in SUBSET PageFailures(f) : Cardinality(x) <= MaxFails}}

EngineInit ==
    /\ mangadex_queue = <<>>
    /\ natomanga_queue = <<>>
    /\ s3_upload_queue = 0
    /\ processing_manga = {}
    /\ processing_lock = {}
    /\ pc = [w \in Workers |-> "get"]
    /\ manga_list = [w \in Workers |-> <<>>]
    /\ manga_id = [w \in Workers |-> NoItem]
    /\ outcome = [w \in Workers |-> "none"]
    /\ mainpc = "cycle"
    /\ md_cycle_offset = 0
    /\ nm_cycle_offset = 0
    /\ joined = 0
    /\ OperatorInit
    /\ ReplicationInit
    /\ FetchInit
    /\ StoreInit
    /\ subject \in Subjects
    /\ feed \in Feeds
    /\ manifest = [l \in Locators |-> MaxPages]
    /\ listed_pages = [c \in ChapterNums \X Locators |-> NotListed]
    /\ last = NoLast
    /\ nops = 0

\* The latest ListPages answer of every chapter after the chapters of a
\* run, taken in the order of the run.
RECURSIVE ListedAfter(_, _, _)
ListedAfter(listed, results, i) ==
    IF i > Len(results) THEN listed
    ELSE ListedAfter(IF results[i].list_ok
                     THEN [listed EXCEPT ![<<results[i].chapter_num, results[i].loc>>] =
                              [some |-> TRUE, pages |-> results[i].listed]]
                     ELSE listed,
                     results, i + 1)

Record(kind, up, out, run, offered) ==
    [kind |-> kind, prev |-> last.kind, outcome |-> out, list_ok |-> up.list_ok,
     mfail |-> up.mfail, pfail |-> up.pfail, raised |-> run.raised,
     failures |-> run.failures, inserted |-> run.inserted,
     attempted |-> run.attempted, results |-> run.results, offered |-> offered]

\* A manga object whose chapters were set from the chapter list, as
\* set_latest_chapters leaves it after manga.set_chapters.
MangaOf(id, f) ==
    IF Source(id) = "md" THEN set_chapters(MangaFactory(Params(id)), f)
    ELSE set_chapters(MangaFactory(Params(id)), _parse_chapter_list(f))

SyncPassDone(up, r) ==
    /\ tables' = r.tables
    /\ meta' = r.meta
    /\ s3_upload_queue' = s3_upload_queue + (IF r.signal THEN 1 ELSE 0)
    /\ listed_pages' = ListedAfter(listed_pages, r.run.results, 1)
    /\ last' = Record("sync", up, r.outcome, r.run, 0)

\* One sync pass of the item: the inner try of a worker (main.py 133-152).
E_SyncPass ==
    /\ nops < MaxOps
    /\ \E up \in EngineUps(feed, manifest) :
          SyncPassDone(up, SyncBody(Params(subject), tables, meta, up))
    /\ nops' = nops + 1
    /\ UNCHANGED <<page_fetch, mangadex_queue, natomanga_queue, processing_manga, processing_lock,
                   pc, manga_list, manga_id, outcome, mainpc, md_cycle_offset,
                   nm_cycle_offset, joined, opVars, s3Vars, subject, feed, manifest>>

DownloadDone(up, r) ==
    /\ tables' = r.tables
    /\ listed_pages' = ListedAfter(listed_pages, r.results, 1)
    /\ last' = Record("download", up, IF r.raised THEN "error" ELSE "done", r, 0)

\* helper.download_chapters(manga) on its own.
E_Download ==
    /\ nops < MaxOps
    /\ \E up \in PageUps(feed, manifest) :
          DownloadDone(up, download_chapters(MangaOf(subject, feed), tables, up))
    /\ nops' = nops + 1
    /\ UNCHANGED <<page_fetch, orchVars, opVars, s3Vars, meta, subject, feed, manifest>>

UnreadDone(up, r) ==
    /\ tables' = r.tables
    /\ listed_pages' = ListedAfter(listed_pages, r.results, 1)
    /\ last' = Record("unread", up, IF r.raised THEN "error" ELSE "done", r, 0)

\* helper.download_chapters(manga) while the store cannot be read.
E_DownloadUnread ==
    /\ nops < MaxOps
    /\ \E up \in PageUps(feed, manifest) :
          UnreadDone(up, download_chapters_unread(MangaOf(subject, feed), tables, up))
    /\ nops' = nops + 1
    /\ UNCHANGED <<page_fetch, orchVars, opVars, s3Vars, meta, subject, feed, manifest>>

StoreChapterDone(up, chapter_num, is_new, loc, r) ==
    /\ tables' = r.tables
    /\ listed_pages' = IF r.list_ok
                       THEN [listed_pages EXCEPT ![<<chapter_num, loc>>] =
                                [some |-> TRUE, pages |-> r.listed]]
                       ELSE listed_pages
    /\ last' = Record("store", up, "done",
                      AfterChapter(EmptyRun(tables), r, chapter_num, is_new, loc), 0)

StoreChapter(up, chapter, status) ==
    StoreChapterDone(up, replace(chapter.chapter, ".", "_"),
                     replace(chapter.chapter, ".", "_") \notin DOMAIN status, chapter.id,
                     store_page_url_to_database(
                         tables, chapter.id, replace(chapter.chapter, ".", "_"), subject,
                         IF replace(chapter.chapter, ".", "_") \in DOMAIN status
                         THEN status[replace(chapter.chapter, ".", "_")].pages ELSE {},
                         up))

\* MangaDexHelper.store_page_url_to_database on one chapter of the item, with
\* the existing pages get_chapters_with_status reports for it.
E_StoreChapter ==
    /\ nops < MaxOps
    /\ Source(subject) = "md"
    /\ \E i \in 1..Len(MangaOf(subject, feed).chapters) :
          \E up \in PageUps(feed, manifest) :
              StoreChapter(up, MangaOf(subject, feed).chapters[i],
                           get_chapters_with_status(tables, subject))
    /\ nops' = nops + 1
    /\ UNCHANGED <<page_fetch, orchVars, opVars, s3Vars, meta, subject, feed, manifest>>

\* What the download branch of a pass leaves behind: m is the manga handed to
\* it, r what SyncDownload made of it.
BranchDone(up, m, r) ==
    /\ tables' = r.tables
    /\ meta' = r.meta
    /\ s3_upload_queue' = s3_upload_queue + (IF r.signal THEN 1 ELSE 0)
    /\ listed_pages' = ListedAfter(listed_pages, r.run.results, 1)
    /\ last' = Record("branch", up, r.outcome, r.run, m.latest_chapter)

Branch(up, m) ==
    BranchDone(up, m,
               SyncDownload([outcome |-> "no_new", tables |-> tables, meta |-> meta,
                             signal |-> FALSE, run |-> EmptyRun(tables),
                             is_new_manga |-> TRUE, has_new_chapters |-> TRUE,
                             downloading |-> FALSE],
                            insert_manga_metadata(meta, m),
                            download_chapters(m, tables, up)))

\* The branch `if should_download:` of a worker on its own (main.py 147-150),
\* for a manga whose latest chapter was set from its chapters:
\* insert_manga_metadata, download_chapters, s3_upload_queue.put(True).
E_DownloadBranch ==
    /\ nops < MaxOps
    /\ \E up \in PageUps(feed, manifest) :
          Branch(up, set_latest_chapter(MangaOf(subject, feed),
                                        <<MangaOf(subject, feed).chapters>>).manga)
    /\ nops' = nops + 1
    /\ UNCHANGED <<page_fetch, mangadex_queue, natomanga_queue, processing_manga, processing_lock,
                   pc, manga_list, manga_id, outcome, mainpc, md_cycle_offset,
                   nm_cycle_offset, joined, opVars, s3Vars, subject, feed, manifest>>

InsertDone(m) ==
    /\ meta' = insert_manga_metadata(meta, m)
    /\ last' = [NoLast EXCEPT !.kind = "insert", !.prev = last.kind, !.outcome = "done",
                              !.offered = m.latest_chapter]

\* sqlite_helper.insert_manga_metadata(manga), the manga's latest chapter set
\* by manga.set_latest_chapter(manga.get_chapters()).
\* The description and cover the upstream gives for an item at one time or
\* another: the first is the one Params carries.
Details ==
    {[description |-> "", cover_img |-> "c1"], [description |-> "d1", cover_img |-> "c2"]}

\* The manga object built from params that carry the details d.
WithDetails(manga, d) ==
    [manga EXCEPT !.description = d.description, !.cover_img = d.cover_img]

E_Insert ==
    /\ nops < MaxOps
    /\ \E d \in Details :
          InsertDone(WithDetails(set_latest_chapter(MangaOf(subject, feed),
                                     <<MangaOf(subject, feed).chapters>>).manga, d))
    /\ nops' = nops + 1
    /\ UNCHANGED <<page_fetch, orchVars, opVars, s3Vars, tables, subject, feed, manifest, listed_pages>>

\* The upstream publishes another chapter list.
E_FeedChange ==
    /\ nops < MaxOps
    /\ \E f \in Feeds \ {feed} : feed' = f
    /\ last' = [NoLast EXCEPT !.kind = "upstream", !.prev = last.kind]
    /\ nops' = nops + 1
    /\ UNCHANGED <<page_fetch, orchVars, opVars, s3Vars, storeVars, subject, manifest, listed_pages>>

\* The upstream changes the page manifest of its chapters.
E_ManifestChange ==
    /\ nops < MaxOps
    /\ \E l \in Locators, n \in 0..MaxPages :
          /\ n # manifest[l]
          /\ manifest' = [manifest EXCEPT ![l] = n]
    /\ last' = [NoLast EXCEPT !.kind = "upstream", !.prev = last.kind]
    /\ nops' = nops + 1
    /\ UNCHANGED <<page_fetch, orchVars, opVars, s3Vars, storeVars, subject, feed, listed_pages>>

EngineNext ==
    \/ E_SyncPass
    \/ E_Download
    \/ E_StoreChapter
    \/ E_DownloadBranch
    \/ E_DownloadUnread
    \/ E_Insert
    \/ E_FeedChange
    \/ E_ManifestChange

EngineSpec == EngineInit /\ [][EngineNext]_vars

\* ============================================================ the claims
\* ------------------------------------------------------ reading the store
RowsOf(tbls, id) ==
    IF tbls[replace(id, "-", "_")].exists THEN tbls[replace(id, "-", "_")].rows ELSE {}

PersistedPairs(tbls, id) == {<<r.chapter_num, r.page_number>> : r \in RowsOf(tbls, id)}

PersistedPages(tbls, id, c) ==
    {r.page_number : r \in {q \in RowsOf(tbls, id) : q.chapter_num = c}}

ChapterNum(ch) == replace(ch.chapter, ".", "_")

\* The pages the manifest mf lists for chapter ch, as stored page numbers.
ManifestPages(ch, mf) == {str(i) : i \in 1..mf[ch.id]}

ManifestPairs(chs, mf) ==
    UNION {{<<ChapterNum(chs[i]), q>> : q \in ManifestPages(chs[i], mf)} : i \in DOMAIN chs}

\* The numeric index a stored chapter number stands for ("1_5" is 1.5).
TrueIndex(c) == float(replace(c, "_", "."))

DistinctIndices(chs) ==
    \A i, j \in DOMAIN chs : i # j => float(chs[i].chapter) # float(chs[j].chapter)

NoFailure(l) == l.list_ok /\ l.mfail = {} /\ l.pfail = {}

RECURSIVE SumDownloaded(_)
SumDownloaded(results) ==
    IF results = <<>> THEN 0
    ELSE Head(results).info.downloaded + SumDownloaded(Tail(results))

RECURSIVE SumTotal(_)
SumTotal(results) ==
    IF results = <<>> THEN 0
    ELSE Head(results).info.total + SumTotal(Tail(results))

\* A step that is one sync pass of the item, one direct download_chapters call.
SyncStep == last'.kind = "sync" /\ nops' = nops + 1
DownloadStep == last'.kind = "download" /\ nops' = nops + 1

\* ------------------------------------------------------------------ C1
\* The workers that hold an item id: past the add, not yet past the discard.
Holders(id) == {w \in Workers : pc[w] \in {"sync", "release"} /\ manga_id[w] = id}

\* C1: at every instant at most one worker, MangaDex and NatoManga workers
\* together, holds a given item id: two workers that run the check-and-add for
\* the same id never both proceed to sync it.
C1_AtMostOneHolder == \A id \in Ids : Cardinality(Holders(id)) <= 1

\* A worker is syncing an id while another, which met the same id, was turned away.
C1_Witness ==
    \E w1, w2 \in Workers :
        /\ w1 # w2
        /\ pc[w1] = "sync"
        /\ manga_id[w2] = manga_id[w1]
        /\ outcome[w2] = "skipped"
        /\ pc[w2] = "loop"

\* ------------------------------------------------------------------ C2
\* C2: when two sync passes of an item follow one another with no upstream
\* change in between, the second pass downloads no page.
C2_SecondPassDownloadsNothing ==
    (last.kind = "sync" /\ last.prev = "sync") =>
        /\ last.attempted = {}
        /\ SumDownloaded(last.results) = 0

\* A second pass in a row over an upstream that has a numeric chapter with pages.
C2_Witness ==
    /\ last.kind = "sync"
    /\ last.prev = "sync"
    /\ NoFailure(last)
    /\ \E i \in DOMAIN MangaOf(subject, feed).chapters :
          manifest[MangaOf(subject, feed).chapters[i].id] > 0

\* ------------------------------------------------------------------ C3
\* The upstream's highest chapter is above every chapter synced so far and has pages.
NewWork(chs) ==
    /\ chs # <<>>
    /\ manifest[chs[Len(chs)].id] > 0
    /\ \A c \in {r.chapter_num : r \in RowsOf(tables, subject)} :
          TrueIndex(c) < float(chs[Len(chs)].chapter)

\* C3: a sync pass never skips genuinely new work: when the upstream holds a
\* chapter whose index is above that of every chapter already synced, a pass
\* that meets no failure persists the pages of that chapter.
C3_NewWorkFetched ==
    [][(SyncStep /\ NoFailure(last') /\ NewWork(MangaOf(subject, feed).chapters)) =>
          ManifestPairs(<<MangaOf(subject, feed).chapters[
                             Len(MangaOf(subject, feed).chapters)]>>, manifest)
              \subseteq PersistedPairs(tables', subject)]_vars

\* ------------------------------------------------------------------ C4
\* The manifest pages of the item's chapters that the store does not hold.
AbsentPairs == ManifestPairs(MangaOf(subject, feed).chapters, manifest)
                   \ PersistedPairs(tables, subject)

\* C4: a manifest page absent from the store after a pass is fetched by the
\* next sync pass although the upstream did not change, and that pass fetches
\* the absent pages only.
C4_AbsentPagesFetchedNext ==
    [][(SyncStep /\ last.kind \in {"sync", "download", "store"} /\ NoFailure(last')
          /\ AbsentPairs # {}) =>
          /\ AbsentPairs \subseteq PersistedPairs(tables', subject)
          /\ last'.attempted = AbsentPairs]_vars

\* ------------------------------------------------------------------ C5
\* C5: the latest_chapter stored for an item never decreases, whatever
\* operation runs, and its row never disappears.
C5_LatestNeverDecreases ==
    [][\A id \in Ids :
          meta[id].exists =>
              /\ meta'[id].exists
              /\ meta'[id].latest_chapter >= meta[id].latest_chapter]_vars

\* insert_manga_metadata was offered a latest chapter below the stored one.
C5_Witness ==
    /\ last.kind = "insert"
    /\ meta[subject].exists
    /\ last.offered > 0
    /\ last.offered < meta[subject].latest_chapter

\* ------------------------------------------------------------------ C6
\* C6: in every reachable state the page numbers persisted for a chapter are
\* among the page numbers of the latest ListPages answer for that chapter, also
\* when the manifest changed between passes (no phantom pages).
C6_PersistedWithinLatestManifest ==
    \A c \in ChapterNums, l \in Locators :
        listed_pages[<<c, l>>].some =>
            {r.page_number : r \in {q \in RowsOf(tables, subject) :
                                       q.chapter_num = c /\ q.page_url = l}}
                \subseteq listed_pages[<<c, l>>].pages

\* ------------------------------------------------------------------ C7
\* Nothing is persisted for the item and every upstream chapter has pages.
FreshItem(chs) ==
    /\ RowsOf(tables, subject) = {}
    /\ ~meta[subject].exists
    /\ chs # <<>>
    /\ DistinctIndices(chs)
    /\ \A i \in DOMAIN chs : manifest[chs[i].id] > 0

AllPersisted(chs) ==
    /\ PersistedPairs(tables', subject) = ManifestPairs(chs, manifest)
    /\ SumDownloaded(last'.results) = Cardinality(ManifestPairs(chs, manifest))
    /\ SumTotal(last'.results) = Cardinality(ManifestPairs(chs, manifest))
    /\ meta'[subject].exists
    /\ meta'[subject].latest_chapter = float(chs[Len(chs)].chapter)

\* C7: one sync pass of an item without persisted state, every upstream chapter
\* with a non-empty manifest, persists one page record per manifest page, reports
\* downloaded = total = the sum of the page counts and stores the highest
\* chapter index as the latest chapter.
C7_FreshItemFullySynced ==
    [][(SyncStep /\ NoFailure(last') /\ FreshItem(MangaOf(subject, feed).chapters)) =>
          AllPersisted(MangaOf(subject, feed).chapters)]_vars

\* ------------------------------------------------------------------ C8
\* Every upstream chapter but the highest is completely persisted; the highest
\* has pages upstream and none in the store.
GainedOneChapter(chs) ==
    /\ Len(chs) >= 2
    /\ DistinctIndices(chs)
    /\ manifest[chs[Len(chs)].id] > 0
    /\ PersistedPages(tables, subject, ChapterNum(chs[Len(chs)])) = {}
    /\ \A i \in 1..(Len(chs) - 1) :
          /\ manifest[chs[i].id] > 0
          /\ PersistedPages(tables, subject, ChapterNum(chs[i])) = ManifestPages(chs[i], manifest)

OnlyNewChapterDownloaded(chs) ==
    /\ last'.attempted = ManifestPairs(<<chs[Len(chs)]>>, manifest)
    /\ ManifestPairs(<<chs[Len(chs)]>>, manifest) \subseteq PersistedPairs(tables', subject)
    /\ Len(last'.results) = Len(chs)
    /\ \A i \in 1..(Len(chs) - 1) :
          i \in DOMAIN last'.results => last'.results[i].info.downloaded = 0
    /\ meta'[subject].exists
    /\ meta'[subject].latest_chapter = float(chs[Len(chs)].chapter)

\* C8: when a fully synced item gains a chapter upstream, the next sync pass
\* downloads the pages of the new chapter and no other, reports the earlier
\* chapters complete with nothing downloaded, and stores the new chapter's
\* index as the latest chapter.
C8_OnlyNewChapterDownloaded ==
    [][(SyncStep /\ NoFailure(last') /\ GainedOneChapter(MangaOf(subject, feed).chapters)) =>
          OnlyNewChapterDownloaded(MangaOf(subject, feed).chapters)]_vars

\* ------------------------------------------------------------------ C9
\* C9: a sync pass whose chapter-list fetch fails ends with an error outcome,
\* writes no page record and no metadata, and leaves the stored latest chapter
\* as it was.
C9_ListFailureIsError ==
    [][(SyncStep /\ ~last'.list_ok) =>
          /\ last'.outcome = "error"
          /\ tables' = tables
          /\ meta' = meta]_vars

\* ------------------------------------------------------------------ C10
\* The page stores a run l starts: per chapter of the run, the listed pages the
\* store did not hold when the run read the chapters' status.
PageTasks(l) ==
    {t \in (DOMAIN l.results) \X PageNumbers :
        /\ l.results[t[1]].list_ok
        /\ str(t[2]) \in l.results[t[1]].listed
        /\ str(t[2]) \notin PersistedPages(tables, subject, l.results[t[1]].chapter_num)}

FailedTasks(l) == {t \in PageTasks(l) : <<l.results[t[1]].loc, t[2]>> \in l.pfail}

\* C10: every page whose store fails is recorded as one page-level failure and
\* the run goes on: the other missing pages of the chapter and the remaining
\* chapters are processed and persisted in the same run.
C10_PageFailureDoesNotAbort ==
    [][(last'.kind \in {"download", "store"} /\ nops' = nops + 1 /\ ~last'.raised) =>
          /\ last'.failures = Cardinality(FailedTasks(last'))
          /\ \A t \in PageTasks(last') \ FailedTasks(last') :
                <<last'.results[t[1]].chapter_num, str(t[2])>>
                    \in PersistedPairs(tables', subject)
          /\ DownloadStep => Len(last'.results) = Len(MangaOf(subject, feed).chapters)]_vars

\* A download whose first chapter lost one page: its other page and the pages
\* of the next chapter were persisted.
C10_Witness ==
    /\ last.kind = "download"
    /\ ~last.raised
    /\ last.failures = 1
    /\ Len(last.results) = 2
    /\ \E e \in last.pfail : e[1] = last.results[1].loc
    /\ last.results[1].chapter_num # last.results[2].chapter_num
    /\ \E q \in PersistedPages(tables, subject, last.results[1].chapter_num) :
          <<last.results[1].chapter_num, q>> \in last.inserted
    /\ ManifestPairs(<<[chapter |-> last.results[2].chapter_num, id |-> last.results[2].loc]>>,
                     manifest) \subseteq last.inserted
    /\ manifest[last.results[2].loc] > 0

\* ----------------------------------------------------------------------- C11
\* The workers that have acquired their item and not yet released it.
Acquirers == {w \in Workers : pc[w] \in {"sync", "release"}}

\* A worker waiting on its queue, or gone.
Idle(w) == pc[w] \in {"get", "done"}

\* C11: processing_manga holds exactly the ids of the workers between their
\* acquisition and their release, so a worker that has finished its item,
\* normally or with an exception, has left no id behind, and processing_manga
\* is empty whenever every worker waits on its queue.
C11_ReleasedWhenFinished ==
    /\ processing_manga = {manga_id[w] : w \in Acquirers}
    /\ (\A w \in Workers : Idle(w)) => processing_manga = {}

\* Every worker is idle again after one sync raised and another returned.
C11_Witness ==
    /\ \A w \in Workers : Idle(w)
    /\ \E w \in Workers : outcome[w] = "error"
    /\ \E w \in Workers : outcome[w] = "no_new"
    /\ processing_manga = {}

\* ----------------------------------------------------------------------- C12
\* C12: a worker leaves its loop only by dequeuing the sentinel; an exception
\* of the listing sends it back to its queue, and a sync pass, raising or
\* not, is followed by the release and the rest of the same listing.
C12_ErrorsDoNotEndTheLoop ==
    [][\A w \in Workers :
          /\ (pc[w] # "done" /\ pc'[w] = "done")
                => (pc[w] = "get" /\ QueueOf(w) # <<>> /\ Head(QueueOf(w)).none)
          /\ (pc[w] = "got" /\ pc'[w] # "got") => pc'[w] \in {"loop", "get"}
          /\ (pc[w] = "sync" /\ pc'[w] # "sync")
                => (pc'[w] = "release" /\ manga_list'[w] = manga_list[w])
          /\ (pc[w] = "release" /\ pc'[w] # "release")
                => (pc'[w] = "loop" /\ manga_list'[w] = manga_list[w])]_vars

\* One worker is back in its loop after a sync that raised, with items of the
\* listing still to visit; another is back at its queue after a listing that
\* raised.
C12_Witness ==
    /\ \E w \in Workers :
          pc[w] = "loop" /\ outcome[w] = "error" /\ manga_list[w] # <<>>
    /\ \E w \in Workers : pc[w] = "get" /\ outcome[w] = "list_error"

\* ----------------------------------------------------------------------- C13
\* C13: the operator worker and a discovery worker never sync the same item id
\* at the same time.
C13_OperatorSharesDedupGuard ==
    \A w \in Workers : ~(rqpc = "sync" /\ pc[w] = "sync" /\ manga_id[w] = requested)

\* ----------------------------------------------------------------------- C14
\* C14: the replication thread calls data_to_s3 at an evaluation exactly when
\* it has counted at least 10 signals since its last upload or at least 300
\* seconds have passed since it, and after an upload that succeeded the count
\* is 0 and the time reference is the time of that evaluation.
C14_FlushIffThreshold ==
    /\ evaluation.flushed
          <=> (evaluation.upload_count >= 10 \/ evaluation.time_elapsed >= 300)
    /\ (evaluation.flushed /\ evaluation.uploaded)
          => (upload_count = 0 /\ last_upload_time = evaluation.current_time)

\* An upload made on the tenth signal, before 300 seconds had passed.
C14_Witness ==
    /\ evaluation.flushed /\ evaluation.uploaded
    /\ evaluation.upload_count = 10
    /\ evaluation.time_elapsed < 300

\* ----------------------------------------------------------------------- C15
\* C15: after an upload attempt that failed, the signal count and the time
\* reference are what they were at the evaluation.
C15_FailedFlushKeepsCounters ==
    (evaluation.flushed /\ ~evaluation.uploaded)
        => /\ upload_count = evaluation.upload_count
           /\ last_upload_time = evaluation.current_time - evaluation.time_elapsed

\* ----------------------------------------------------------------------- C16
\* The final upload of the shutdown has just been made.
FinalFlushMade == mainpc = "sentinels"

\* C16: when the final upload of the shutdown is made, the sentinels have been
\* enqueued, every worker thread has been joined and no worker is syncing an
\* item.
C16_FinalFlushAfterJoins ==
    FinalFlushMade
        => /\ joined = MANGADEX_WORKERS + NATOMANGA_WORKERS
           /\ \A w \in Workers : pc[w] = "done"

\* ----------------------------------------------------------------------- C17
\* Everything put on the work queues has been taken after the shutdown began.
QueuesDrained ==
    /\ mainpc \in {"join", "exit"}
    /\ mangadex_queue = <<>>
    /\ natomanga_queue = <<>>

\* C17: every pool got one sentinel per worker, so once the queues are
\* drained after the shutdown no worker is left waiting on its queue: each
\* has taken a sentinel or is still on its way to one.
C17_SentinelPerWorker ==
    QueuesDrained => \A w \in Workers : pc[w] # "get"

\* ----------------------------------------------------------------------- C18
\* A scheduling cycle has just run.
CycleStep == nm_cycle_offset' = nm_cycle_offset + 1

\* What a cycle appended to a queue.
Enqueued(before, after) == {after[k] : k \in (Len(before) + 1)..Len(after)}

\* C18 as claimed: every cycle enqueues offset 0 on mangadex_queue and on
\* natomanga_queue.
C18_OffsetZeroEveryCycle ==
    [][CycleStep =>
          /\ Offset(0) \in Enqueued(mangadex_queue, mangadex_queue')
          /\ Offset(0) \in Enqueued(natomanga_queue, natomanga_queue')]_vars

\* C18 amended: every cycle enqueues offset 0 on mangadex_queue; on
\* natomanga_queue it enqueues a single offset, page (cycle index mod 100) of
\* 24 items, which is offset 0 in every hundredth cycle only.
C18_OffsetZeroOnMangaDex ==
    [][CycleStep =>
          /\ Offset(0) \in Enqueued(mangadex_queue, mangadex_queue')
          /\ Enqueued(natomanga_queue, natomanga_queue')
                = {Offset((nm_cycle_offset % 100) * 24)}
          /\ Len(natomanga_queue') = Len(natomanga_queue) + 1
          /\ (Offset(0) \in Enqueued(natomanga_queue, natomanga_queue'))
                <=> (nm_cycle_offset % 100 = 0)]_vars

\* The hundred-and-first cycle has run: its NatoManga offset is 0 again, the
\* second cycle's was 24, and both put offset 0 first on mangadex_queue.
C18_Witness ==
    /\ nm_cycle_offset = 101
    /\ natomanga_queue[2] = Offset(24)
    /\ natomanga_queue[101] = Offset(0)
    /\ mangadex_queue[MANGADEX_WORKERS + 1] = Offset(0)
    /\ mangadex_queue[100 * MANGADEX_WORKERS + 1] = Offset(0)

\* ----------------------------------------------------------------------- C19
\* An operation that stores pages has just run.
StoreStep == last'.kind \in {"download", "store"} /\ nops' = nops + 1

\* No two rows of the item's table have the same chapter and page number.
UniqueKeys(tbls, id) ==
    \A r1, r2 \in RowsOf(tbls, id) :
        (r1.chapter_num = r2.chapter_num /\ r1.page_number = r2.page_number) => r1 = r2

\* C19: whatever pages an operation inserts, the rows already stored stay as
\* they were, no key is held twice, and a key that exists already raises
\* nothing: without an injected write failure the operation counts no failure.
C19_StorePageIdempotent ==
    [][StoreStep =>
          /\ RowsOf(tables, subject) \subseteq RowsOf(tables', subject)
          /\ UniqueKeys(tables', subject)
          /\ last'.pfail = {} => last'.failures = 0]_vars

\* A download of two chapters with the same number: the pages of the second
\* were inserted on the keys of the first, and the rows are still the first's.
C19_Witness ==
    /\ last.kind = "download"
    /\ ~last.raised
    /\ Len(last.results) = 2
    /\ last.results[1].chapter_num = last.results[2].chapter_num
    /\ last.results[1].loc # last.results[2].loc
    /\ ~last.results[1].info.none /\ last.results[1].info.downloaded > 0
    /\ ~last.results[2].info.none /\ last.results[2].info.downloaded > 0
    /\ last.pfail = {} /\ last.failures = 0
    /\ \A r \in RowsOf(tables, subject) : r.page_url = last.results[1].loc
    /\ RowsOf(tables, subject) # {}

\* ----------------------------------------------------------------------- C20
\* The highest chapter of the upstream list is not above the latest chapter
\* the store gives for the item (existing_chapter in set_latest_chapters).
AtOrBelowStoredLatest(tbls) ==
    LET chs == MangaOf(subject, feed).chapters
        existing_chapter == get_manga_latest_chapter(tbls, replace(subject, "-", "_"), subject)
    IN  /\ chs # <<>>
        /\ existing_chapter.some
        /\ float(chs[Len(chs)].chapter) <= existing_chapter.val

WorkerRead(tbls, id) == get_manga_latest_chapter(tbls, MetaTableName, id)

\* C21: what the worker reads as the stored latest chapter of the item is the
\* latest_chapter of its metadata row, and there is none exactly when the item
\* has no metadata row.
C21_ReadIsLastWritten ==
    /\ WorkerRead(tables, subject).some <=> meta[subject].exists
    /\ WorkerRead(tables, subject).some
          => WorkerRead(tables, subject).val = meta[subject].latest_chapter

\* ----------------------------------------------------------------------- C22
\* The upstream has no chapter for the item: an empty feed for MangaDex, no
\* chapter anchor for NatoManga.
EmptyChapterList ==
    IF Source(subject) = "md" THEN feed = <<>> ELSE _parse_chapter_list(feed) = <<>>

\* C22: a sync pass whose chapter list came back empty ends as "no new
\* chapters" and writes nothing: the page tables and the metadata, the stored
\* latest chapter with it, are what they were.
C22_EmptyListWritesNothing ==
    [][(SyncStep /\ last'.list_ok /\ EmptyChapterList) =>
          /\ last'.outcome = "no_new"
          /\ tables' = tables
          /\ meta' = meta
          /\ last'.attempted = {}]_vars

\* A pass over an empty chapter list of an item that has a metadata row.
C22_Witness ==
    /\ last.kind = "sync"
    /\ last.list_ok
    /\ EmptyChapterList
    /\ last.outcome = "no_new"
    /\ meta[subject].exists

\* ----------------------------------------------------------------------- C23
\* C23: in a download_chapters run, a chapter whose page-manifest fetch failed
\* is the last chapter the run processed.
C23_ManifestFailureAborts ==
    (last.kind = "download" /\ DistinctIndices(MangaOf(subject, feed).chapters)) =>
        \A i \in DOMAIN last.results :
            last.results[i].loc \in last.mfail => i = Len(last.results)

\* ----------------------------------------------------------------------- C24
\* C24: when the download branch of a pass has stored the item's latest
\* chapter, the chapter of that number was processed in the pass.
C24_LatestWrittenAfterChapters ==
    (last.kind = "branch" /\ meta[subject].exists
        /\ meta[subject].latest_chapter = last.offered) =>
        \E i \in DOMAIN last.results :
            TrueIndex(last.results[i].chapter_num) = meta[subject].latest_chapter

InsertStep == last'.kind \in {"insert", "branch"} /\ nops' = nops + 1

\* C26 as stated: applied to an item that has a metadata row, the insert
\* changes the stored description or cover only if the stored value was empty.
C26_FilledOnlyIfEmpty ==
    [][(InsertStep /\ meta[subject].exists) =>
          /\ meta'[subject].cover_img # meta[subject].cover_img
                => meta[subject].cover_img = ""
          /\ meta'[subject].description # meta[subject].description
                => meta[subject].description = ""]_vars

\* C26 amended: applied to an item that has a metadata row, the insert never
\* changes the stored description, empty or not, and changes the stored cover
\* only together with an advance of the stored latest chapter; when the latest
\* chapter offered is not greater than the stored one the row stays as it was.
C26_CoverFollowsLatestChapter ==
    [][(InsertStep /\ meta[subject].exists) =>
          /\ meta'[subject].description = meta[subject].description
          /\ meta'[subject].cover_img # meta[subject].cover_img
                => meta'[subject].latest_chapter > meta[subject].latest_chapter
          /\ last'.offered <= meta[subject].latest_chapter
                => meta'[subject] = meta[subject]]_vars

\* A row stored with one cover and an empty description has met an insert that
\* offered other details and a greater latest chapter: the cover was replaced,
\* the description was not filled.
C26_Witness ==
    /\ last.kind = "insert"
    /\ meta[subject].exists
    /\ meta[subject].cover_img = "c2"
    /\ meta[subject].description = ""

\* ----------------------------------------------------------------------- C27
\* C27: the chapter list attached to the item holds numeric indices only and
\* at most one chapter per numeric index, so the chapters a download run has
\* processed are pairwise of different indices.
C27_OneChapterPerIndex ==
    last.kind = "download" =>
        /\ \A i \in DOMAIN MangaOf(subject, feed).chapters :
              is_float(MangaOf(subject, feed).chapters[i].chapter)
        /\ DistinctIndices(MangaOf(subject, feed).chapters)
        /\ \A i, j \in DOMAIN last.results :
              i # j => TrueIndex(last.results[i].chapter_num)
                          # TrueIndex(last.results[j].chapter_num)

\* ----------------------------------------------------------------------- C28
\* The page threads of one chapter that run at the same time: the store loop
\* starts one thread for every missing page and joins none before the last
\* one is started, so all of them are alive together.
PageThreads(result) == IF result.info.none THEN 0 ELSE result.info.downloaded

\* C28: the page threads running at once within a chapter stay under a bound
\* that does not grow with the missing pages: a chapter that misses every page
\* of the longest manifest runs fewer threads than it misses pages.
C28_PageThreadsBounded ==
    last.kind \in {"store", "download"} =>
        \A i \in DOMAIN last.results : PageThreads(last.results[i]) < MaxPages

\* ----------------------------------------------------------------------- C29
\* C29: a worker whose check finds its item id in processing_manga goes on to
\* the next item of its list in that one step, waiting for nobody: it leaves
\* the lock, syncs nothing, writes nothing to the store, and leaves
\* processing_manga and every other worker as they were.
C29_SkipLeavesHoldAlone ==
    [][\A w \in Workers :
          (pc[w] = "check" /\ manga_id[w] \in processing_manga /\ pc'[w] # "check") =>
              /\ pc'[w] = "loop"
              /\ outcome'[w] = "skipped"
              /\ w \notin processing_lock'
              /\ processing_manga' = processing_manga
              /\ Holders(manga_id[w])' = Holders(manga_id[w])
              /\ \A v \in Workers \ {w} : pc'[v] = pc[v]
              /\ UNCHANGED <<storeVars, s3_upload_queue>>]_vars

\* A worker was turned away from an id whose owner has finished its sync and
\* not yet discarded the id: the id is still held.
C29_Witness ==
    \E w, v \in Workers :
        /\ w # v
        /\ outcome[w] = "skipped"
        /\ manga_id[w] = manga_id[v]
        /\ pc[v] = "release"
        /\ manga_id[v] \in processing_manga

\* ----------------------------------------------------------------------- C30
\* What the cycles first..last of the scheduling loop put on a queue that
\* takes perCycle offsets in every cycle.
EnqueuedByCycles(queue, perCycle, first, last_) ==
    {queue[p] : p \in ((first - 1) * perCycle + 1)..(last_ * perCycle)}

\* C30: the rotating window comes round: any MANGADEX_MAX_OFFSET \div 8 cycles
\* in a row enqueue every MangaDex offset 8, 16, ..., MANGADEX_MAX_OFFSET, and
\* any NATOMANGA_MAX_OFFSET \div 24 cycles in a row enqueue every NatoManga
\* offset 0, 24, ..., NATOMANGA_MAX_OFFSET - 24, however many cycles went before.
C30_WindowCoversGrid ==
    /\ nm_cycle_offset >= MANGADEX_MAX_OFFSET \div 8 =>
          \A k \in 1..(MANGADEX_MAX_OFFSET \div 8) :
              Offset(8 * k) \in EnqueuedByCycles(mangadex_queue, MANGADEX_WORKERS,
                                   nm_cycle_offset - (MANGADEX_MAX_OFFSET \div 8) + 1,
                                   nm_cycle_offset)
    /\ nm_cycle_offset >= NATOMANGA_MAX_OFFSET \div 24 =>
          \A k \in 0..((NATOMANGA_MAX_OFFSET \div 24) - 1) :
              Offset(24 * k) \in EnqueuedByCycles(natomanga_queue, 1,
                                   nm_cycle_offset - (NATOMANGA_MAX_OFFSET \div 24) + 1,
                                   nm_cycle_offset)

\* The loop has run long enough for the MangaDex window to come round twice:
\* the last offset of the range was enqueued once in each round, and the first
\* NatoManga offset after the first is back after a hundred cycles.
C30_Witness ==
    /\ nm_cycle_offset = 2 * (MANGADEX_MAX_OFFSET \div 8)
    /\ Offset(MANGADEX_MAX_OFFSET)
          \in EnqueuedByCycles(mangadex_queue, MANGADEX_WORKERS,
                               1, MANGADEX_MAX_OFFSET \div 8)
    /\ Offset(MANGADEX_MAX_OFFSET)
          \in EnqueuedByCycles(mangadex_queue, MANGADEX_WORKERS,
                               (MANGADEX_MAX_OFFSET \div 8) + 1, nm_cycle_offset)
    /\ natomanga_queue[2] = Offset(24)
    /\ natomanga_queue[(NATOMANGA_MAX_OFFSET \div 24) + 2] = Offset(24)

\* ----------------------------------------------------------------------- C31
\* C31: a worker's sync pass that ends without raising puts one signal on
\* s3_upload_queue, with the item id still in processing_manga, and a pass
\* that raised puts none.
C31_SignalPerCompletedSync ==
    [][\A w \in Workers :
          (pc[w] = "sync" /\ pc'[w] = "release") =>
              /\ manga_id[w] \in processing_manga'
              /\ s3_upload_queue' =
                    s3_upload_queue + (IF outcome'[w] = "error" THEN 0 ELSE 1)]_vars

\* ----------------------------------------------------------------------- C32
\* C32: a worker holds processing_lock only between entering the with block
\* and leaving it, for the membership test and the add (the discard takes and
\* leaves it in one step): a worker that waits on its queue, lists a source,
\* syncs an item or is between items does not hold it, and the step that
\* lists or syncs is taken without it.
C32_LockOnlyForBookkeeping ==
    /\ \A w \in Workers : w \in processing_lock => pc[w] \in {"check", "add"}
    /\ \A w \in Workers : pc[w] \in {"get", "got", "sync"} => w \notin processing_lock

\* A worker is inside the with block while another is syncing an item.
C32_Witness ==
    \E w, v \in Workers :
        /\ w \in processing_lock
        /\ pc[w] = "check"
        /\ pc[v] = "sync"
        /\ v \notin processing_lock

\* ----------------------------------------------------------------------- C33
\* C33: a download whose read of the stored pages failed is given up: it
\* processes no chapter, starts no page thread and writes nothing.
C33_FailedReadAborts ==
    last.kind = "unread" =>
        /\ last.results = <<>>
        /\ last.attempted = {}
        /\ last.inserted = {}

\* ----------------------------------------------------------------------- C34
\* C34: every answer that says rate limit adds one to rate_limits and nothing
\* to api_errors, every other failed request adds one to api_errors and
\* nothing to rate_limits, no more than MAX_RETRIES + 1 requests are made, and
\* a fetch that used them all up without a manifest returns no result.
C34_ManifestFetchBounded ==
    [][page_fetch' # page_fetch =>
          /\ page_fetch'.requests <= MAX_RETRIES + 1
          /\ page_fetch'.requests = page_fetch.requests + 1 =>
                /\ page_fetch'.rate_limits = page_fetch.rate_limits
                      + (IF page_fetch'.response = "rate_limited" THEN 1 ELSE 0)
                /\ page_fetch'.api_errors = page_fetch.api_errors
                      + (IF page_fetch'.response = "raised" THEN 1 ELSE 0)
          /\ page_fetch'.requests = page_fetch.requests =>
                /\ page_fetch'.rate_limits = page_fetch.rate_limits
                /\ page_fetch'.api_errors = page_fetch.api_errors
          /\ (page_fetch'.at = "pages") => page_fetch'.response = "manifest"
          /\ (page_fetch.at = "after" /\ page_fetch.response # "manifest")
                => page_fetch'.at = "none"]_vars

\* The fetch gave up after eleven requests, some rate limited and some failed
\* otherwise, each counted in its own counter.
C34_Witness ==
    /\ page_fetch.at = "none"
    /\ page_fetch.requests = MAX_RETRIES + 1
    /\ page_fetch.rate_limits > 0
    /\ page_fetch.api_errors > 0
    /\ page_fetch.rate_limits + page_fetch.api_errors = MAX_RETRIES + 1

\* ----------------------------------------------------------------------- C35
\* The chapter counters after the report of one processed chapter alone.
ReportOf(result) == ChapterReport(NoChapterStats, result.is_new, result.info)

\* C35: every chapter a download has processed and found a manifest for adds
\* one to exactly one of new_chapters, partial_chapters and skipped_complete:
\* skipped_complete when none of its pages was missing, new_chapters when all
\* of them were, partial_chapters when some were.
C35_OneClassification ==
    last.kind = "download" =>
        \A i \in DOMAIN last.results :
            ~last.results[i].info.none =>
                /\ ReportOf(last.results[i]).new_chapters
                     + ReportOf(last.results[i]).partial_chapters
                     + ReportOf(last.results[i]).skipped_complete = 1
                /\ last.results[i].info.downloaded = 0
                     => ReportOf(last.results[i]).skipped_complete = 1
                /\ (last.results[i].info.downloaded > 0
                      /\ last.results[i].info.downloaded = last.results[i].info.total)
                     => ReportOf(last.results[i]).new_chapters = 1
                /\ (last.results[i].info.downloaded > 0
                      /\ last.results[i].info.downloaded < last.results[i].info.total)
                     => ReportOf(last.results[i]).partial_chapters = 1

\* ----------------------------------------------------------------------- C36
\* C36: every chapter result a store of pages returns adds up: the pages it
\* counts as downloaded and those it counts as skipped are the total.
C36_CountsAddUp ==
    last.kind \in {"download", "store"} =>
        \A i \in DOMAIN last.results :
            ~last.results[i].info.none =>
                last.results[i].info.downloaded + last.results[i].info.skipped
                    = last.results[i].info.total

\* ----------------------------------------------------------------------- C37
\* C37: the downloaded count a store of one chapter's pages returns is the
\* number of page records that call inserted.
C37_DownloadedIsInserted ==
    (/\ last.kind \in {"download", "store"}
     /\ Len(last.results) = 1
     /\ ~last.results[1].info.none) =>
        last.results[1].info.downloaded = Cardinality(last.inserted)

\* ----------------------------------------------------------------------- C38
\* C38: the pages get_chapters_with_status reads back for an item id were
\* stored for that id, and two different ids held in processing_manga never
\* have the same page table.
C38_NoSharedPageTable ==
    /\ \A id \in CatalogIds :
          \A r \in tables[replace(id, "-", "_")].rows :
              (r.chapter_num \in DOMAIN get_chapters_with_status(tables, id)
                /\ r.page_number \in get_chapters_with_status(tables, id)[r.chapter_num].pages)
                  => r.page_url = id
    /\ \A a, b \in processing_manga :
          a # b => replace(a, "-", "_") # replace(b, "-", "_")

\* ----------------------------------------------------------------------- C39
\* The steps a request status may take.
StatusSteps ==
    {<<"absent", "queued">>, <<"queued", "processing">>,
     <<"processing", "completed">>, <<"processing", "failed">>}

\* C39: an id is put on request_queue only when it had no status yet, so at
\* most once, and its status in active_requests only moves from none to
\* queued, to processing, to completed or failed, and stays there.
C39_RequestStatusOrder ==
    [][\A id \in RequestIds :
          /\ (Len(request_queue') > Len(request_queue)
                /\ request_queue'[Len(request_queue')] = id)
                => active_requests[id] = "absent"
          /\ active_requests'[id] # active_requests[id]
                => <<active_requests[id], active_requests'[id]>> \in StatusSteps]_vars

\* ----------------------------------------------------------------------- C40
\* C40: time and again s3_upload_queue is empty or the thread takes a signal
\* from it, so no signal waits for ever, and the signals it has taken since the last flush are followed by a
\* flush, which sets upload_count back to 0, whenever the clock of the model
\* leaves the time for one.
C40_SignalsFlushed ==
    /\ \/ []<>(s3_upload_queue = 0)
       \/ []<><<s3_upload_queue' = s3_upload_queue - 1>>_vars
    /\ (upload_count > 0 /\ clock + UPLOAD_SECONDS + GET_TIMEOUT <= MaxClock)
          ~> (upload_count = 0)

\* A single signal was taken and no other came: the flush that followed was
\* made for the time elapsed.
C40_Witness ==
    /\ evaluation.flushed
    /\ evaluation.upload_count = 1
    /\ evaluation.time_elapsed >= UPLOAD_SECONDS
    /\ upload_count = 0
    /\ clock < MaxClock

====
